---------------------------- MODULE Spec2Model ----------------------------
(***************************************************************************)
(* Model of librepcb::Board (core/project/board/board.cpp) and of the       *)
(* undo command CmdBoardPolygonRemove (boards/cmd/cmdboardpolygonremove.cpp)*)
(*                                                                         *)
(* Every public operation of the board is one action that models the whole *)
(* method: its guards, the side effects it invokes on the items, and the    *)
(* trailing calls (updateErcMessages, forceAirWiresRebuild).  The variable  *)
(* op records which method ran last and how it returned, and log records    *)
(* the calls that method made on items and collaborators, in order.         *)
(***************************************************************************)
EXTENDS Integers, Sequences, FiniteSets, TLC

(***************************************************************************)
(* Bounds of the model                                                      *)
(***************************************************************************)
\* most items the six item collections hold together
MaxItems == 2
\* most point pairs BoardAirWiresBuilder::buildAirWires returns for one net
MaxAirWires == 1
\* most planes of a board file that lists nothing but planes
MaxPlanes == 3

(***************************************************************************)
(* The objects the operations are called with.  An item is <<kind, n>>;     *)
(* item n = 0 of each kind was constructed against another board.           *)
(***************************************************************************)
NoItem == <<"none", 0>>

Devices == {<<"device", 0>>, <<"device", 1>>, <<"device", 2>>}
NetSegments == {<<"netsegment", 0>>, <<"netsegment", 1>>, <<"netsegment", 2>>}
Planes == {<<"plane", 0>>, <<"plane", 1>>, <<"plane", 2>>}
Polygons == {<<"polygon", 0>>, <<"polygon", 1>>, <<"polygon", 2>>}
StrokeTexts == {<<"stroketext", 0>>, <<"stroketext", 1>>}
Holes == {<<"hole", 0>>, <<"hole", 1>>}

\* BI_Base::getBoard(): the board the item was constructed against
getBoard(item) == IF item[2] = 0 THEN "other" ELSE "this"

\* getUuid() of a net segment, plane, polygon, stroke text or hole:
\* items 0, 1 and 2 of a kind carry the same identifier
getUuid(item) == IF item[2] = 3 THEN "u2" ELSE "u1"

\* the component instances and net signals a circuit can hold
ComponentUuids == {"c1", "c2", "c3"}
NetSignalSet == {"s1", "s2"}

\* ComponentInstance::getLibComponent().isSchematicOnly()
isSchematicOnly(component) == component = "c3"

\* BI_Device::getComponentInstanceUuid(): devices 0, 1 and 2 realise the same
\* component instance
getComponentInstanceUuid(device) == IF device[2] = 3 THEN "c2" ELSE "c1"

\* the planes of the boards, with a third plane of this board
AllPlanes == Planes \cup {<<"plane", 3>>}

\* BI_Plane::getPriority(), the key of BI_Plane::operator<: the planes 1, 2
\* and 3 of this board have the priorities 5, 1 and 3
getPriority(plane) == CASE plane[2] = 1 -> 5
                        [] plane[2] = 2 -> 1
                        [] OTHER -> 3

VARIABLES
  mIsAddedToProject,    \* Board::mIsAddedToProject
  dirInProject,         \* mDirectory lives in the project's file system
  mDeviceInstances,     \* QMap<Uuid, BI_Device*>: component uuid -> device or NoItem
  mNetSegments,         \* QList<BI_NetSegment*>
  mPlanes,              \* QList<BI_Plane*>
  mPolygons,            \* QList<BI_Polygon*>
  mStrokeTexts,         \* QList<BI_StrokeText*>
  mHoles,               \* QList<BI_Hole*>
  mAirWires,            \* QMultiHash<NetSignal*, BI_AirWire*>: per signal, newest first
  mScheduledNetSignalsForAirWireRebuild,  \* QSet<NetSignal*>
  mErcMsgListUnplacedComponentInstances,  \* QHash<Uuid, ErcMsg*>: the keys
  calculatedFragments,  \* BI_Plane::mFragments of every plane
  componentInstances,   \* Circuit::getComponentInstances(): the keys
  netSignals,           \* Circuit::getNetSignals(): signals added to the circuit
  addedToBoard,         \* items whose addToBoard() ran last (BI_Base::mIsAddedToBoard)
  op,                   \* the method that ran last: [name, arg, result]
  log                   \* the calls it made, in order

collections == <<mDeviceInstances, mNetSegments, mPlanes, mPolygons,
                 mStrokeTexts, mHoles>>
circuit == <<componentInstances, netSignals>>
airwires == <<mAirWires, mScheduledNetSignalsForAirWireRebuild>>
vars == <<mIsAddedToProject, dirInProject, collections, airwires,
          mErcMsgListUnplacedComponentInstances, calculatedFragments, circuit,
          addedToBoard, op, log>>

(***************************************************************************)
(* Containers                                                               *)
(***************************************************************************)
Range(list) == {list[i] : i \in 1..Len(list)}

\* QList::contains
contains(list, item) == item \in Range(list)

\* QList::removeOne: removes the first occurrence
removeOne(list, item) ==
  IF ~contains(list, item) THEN list
  ELSE LET i == CHOOSE k \in 1..Len(list) :
                  list[k] = item /\ \A j \in 1..(k - 1) : list[j] # item
       IN SubSeq(list, 1, i - 1) \o SubSeq(list, i + 1, Len(list))

RECURSIVE Concat(_)
Concat(lists) == IF lists = <<>> THEN <<>> ELSE Head(lists) \o Concat(Tail(lists))

Reverse(list) == [i \in 1..Len(list) |-> list[Len(list) + 1 - i]]

\* iteration order of the keys of QMap<Uuid, ...> and of the hash of signals
ComponentOrder == <<"c1", "c2", "c3">>
NetSignalOrder == <<"s1", "s2">>

\* the values of mDeviceInstances in key order
DeviceList(devices) ==
  Concat([i \in 1..Len(ComponentOrder) |->
            IF devices[ComponentOrder[i]] = NoItem THEN <<>>
            ELSE <<devices[ComponentOrder[i]]>>])

\* the values of mAirWires
AirWireList(airWires) ==
  Concat([i \in 1..Len(NetSignalOrder) |->
            [j \in 1..Len(airWires[NetSignalOrder[i]]) |->
               airWires[NetSignalOrder[i]][j].item]])

\* Board::getDeviceInstanceByComponentUuid
getDeviceInstanceByComponentUuid(uuid) == mDeviceInstances[uuid]

\* Board::getNetSegmentByUuid
getNetSegmentByUuid(uuid) ==
  IF \E i \in 1..Len(mNetSegments) : getUuid(mNetSegments[i]) = uuid
  THEN mNetSegments[CHOOSE i \in 1..Len(mNetSegments) :
                      /\ getUuid(mNetSegments[i]) = uuid
                      /\ \A j \in 1..(i - 1) : getUuid(mNetSegments[j]) # uuid]
  ELSE NoItem

\* getAllItems with the polygons ahead of the planes
getAllItemsPolygonsFirst ==
  DeviceList(mDeviceInstances) \o mNetSegments \o mPolygons \o mPlanes
  \o mStrokeTexts \o mHoles \o AirWireList(mAirWires)

\* Board::getAllItems
getAllItems == DeviceList(mDeviceInstances) \o mNetSegments \o mPlanes \o mPolygons
               \o mStrokeTexts \o mHoles \o AirWireList(mAirWires)

\* Board::isEmpty
isEmpty == /\ DeviceList(mDeviceInstances) = <<>>
           /\ mNetSegments = <<>>
           /\ mPlanes = <<>>
           /\ mPolygons = <<>>
           /\ mStrokeTexts = <<>>
           /\ mHoles = <<>>

\* number of members of the six item collections
NumItems == Len(DeviceList(mDeviceInstances)) + Len(mNetSegments) + Len(mPlanes)
            + Len(mPolygons) + Len(mStrokeTexts) + Len(mHoles)

(***************************************************************************)
(* What a method call leaves behind for the observer                        *)
(***************************************************************************)
Ev(name, item) == <<name, item>>

Return(name, arg, result, calls) ==
  /\ op' = [name |-> name, arg |-> arg, result |-> result]
  /\ log' = calls

(***************************************************************************)
(* Diagnostics: Board::updateErcMessages                                    *)
(***************************************************************************)
\* updateErcMessages() without the pass over the keys of the messages
updateErcMessagesNoDiscard(isAdded, components, devices, msgs) ==
  IF isAdded
  THEN LET toPlace == {c \in components : ~isSchematicOnly(c)}
           created == {c \in toPlace : devices[c] = NoItem /\ c \notin msgs}
           deleted == {c \in toPlace : devices[c] # NoItem /\ c \in msgs}
       IN (msgs \cup created) \ deleted
  ELSE {}

\* updateErcMessages() that keeps the messages of a board that is not added
updateErcMessagesKeep(isAdded, components, devices, msgs) ==
  IF isAdded
  THEN LET toPlace == {c \in components : ~isSchematicOnly(c)}
           created == {c \in toPlace : devices[c] = NoItem /\ c \notin msgs}
           deleted == {c \in toPlace : devices[c] # NoItem /\ c \in msgs}
           afterLoop == (msgs \cup created) \ deleted
       IN {c \in afterLoop : c \in components}
  ELSE msgs

\* the keys of mErcMsgListUnplacedComponentInstances after updateErcMessages()
\* ran with the attached flag isAdded, the circuit's component instances
\* components, the device map devices and the registered messages msgs
updateErcMessages(isAdded, components, devices, msgs) ==
  IF isAdded
  THEN LET toPlace == {c \in components : ~isSchematicOnly(c)}
           created == {c \in toPlace : devices[c] = NoItem /\ c \notin msgs}
           deleted == {c \in toPlace : devices[c] # NoItem /\ c \in msgs}
           afterLoop == (msgs \cup created) \ deleted
       IN {c \in afterLoop : c \in components}
  ELSE {}

(***************************************************************************)
(* Air wires: Board::triggerAirWiresRebuild, Board::forceAirWiresRebuild    *)
(*                                                                         *)
(* A rebuild works on st = [airWires, scheduled, added, log, thrown].  The  *)
(* caller chooses what the collaborators do: order is the iteration order  *)
(* of the QSet, built[s] the number of point pairs the builder returns for *)
(* s, and fail names the one call that throws, if any.                      *)
(***************************************************************************)
SigRef(sig) == <<sig, 0>>

NoFail == [sig |-> "none", stage |-> "none", k |-> 0]

FailChoices ==
  {NoFail}
  \cup {[sig |-> s, stage |-> "build", k |-> 0] : s \in NetSignalSet}
  \cup {[sig |-> s, stage |-> g, k |-> n] :
          s \in NetSignalSet, g \in {"remove", "add"}, n \in 1..MaxAirWires}

Orders == {o \in [1..Cardinality(NetSignalSet) -> NetSignalSet] :
             \A i, j \in DOMAIN o : i # j => o[i] # o[j]}

BuiltChoices == [NetSignalSet -> 0..MaxAirWires]

\* a loop over every signal, scheduled or not
RestrictNone(order, set) == order

\* the signals of set in the order they have in order
RECURSIVE Restrict(_, _)
Restrict(order, set) ==
  IF order = <<>> THEN <<>>
  ELSE (IF Head(order) \in set THEN <<Head(order)>> ELSE <<>>)
       \o Restrict(Tail(order), set)

\* new BI_AirWire: the object gets the first address not in use
newAirWire(airWires) ==
  LET used == Range(AirWireList(airWires))
      n == CHOOSE k \in 1..(Cardinality(used) + 1) :
             /\ <<"airwire", k>> \notin used
             /\ \A m \in 1..(k - 1) : <<"airwire", m>> \in used
  IN <<"airwire", n>>

\* lines 563-566: take the signal's air wires one by one and detach each;
\* the throwAt-th removeFromBoard() throws (0: none does).  The air wire whose
\* detach threw is in no collection any more and leaves the model.
removeOldAirWires(st, sig, throwAt) ==
  LET old == st.airWires[sig]
      throws == throwAt \in 1..Len(old)
      n == IF throws THEN throwAt ELSE Len(old)
  IN [st EXCEPT
        !.airWires = [@ EXCEPT ![sig] = SubSeq(old, n + 1, Len(old))],
        !.added = @ \ {old[j].item : j \in 1..n},
        !.log = @ \o [j \in 1..n |-> Ev("removeFromBoard", old[j].item)],
        !.thrown = throws]

\* lines 574-579: one BI_AirWire per point pair first..last, attached and then
\* inserted; the throwAt-th addToBoard() throws (0: none does)
RECURSIVE addNewAirWires(_, _, _, _, _)
addNewAirWires(st, sig, first, last, throwAt) ==
  IF first > last THEN st
  ELSE LET airWire == newAirWire(st.airWires)
           called == [st EXCEPT !.log = @ \o <<Ev("addToBoard", airWire)>>]
       IN IF throwAt = first
          THEN [called EXCEPT !.thrown = TRUE]
          ELSE addNewAirWires(
                 [called EXCEPT
                    !.added = @ \cup {airWire},
                    !.airWires = [@ EXCEPT ![sig] =
                       <<[item |-> airWire, points |-> first]>> \o @]],
                 sig, first + 1, last, throwAt)

\* the body of the loop without the test of line 568
rebuildSignalAlways(st, sig, built, fail) ==
  LET here == fail.sig = sig
      removed == removeOldAirWires(
                   st, sig, IF here /\ fail.stage = "remove" THEN fail.k ELSE 0)
      asked == [removed EXCEPT !.log = @ \o <<Ev("buildAirWires", SigRef(sig))>>]
  IN IF removed.thrown THEN removed
     ELSE IF here /\ fail.stage = "build" THEN [asked EXCEPT !.thrown = TRUE]
     ELSE addNewAirWires(
            [asked EXCEPT !.log = @ \o <<Ev("pointPairs", <<sig, built[sig]>>)>>],
            sig, 1, built[sig], IF here /\ fail.stage = "add" THEN fail.k ELSE 0)

\* lines 562-580: the body of the loop for one signal; the log tells for which
\* signal the builder was asked and how many point pairs it returned
rebuildSignal(st, sig, built, fail) ==
  LET here == fail.sig = sig
      removed == removeOldAirWires(
                   st, sig, IF here /\ fail.stage = "remove" THEN fail.k ELSE 0)
      asked == [removed EXCEPT !.log = @ \o <<Ev("buildAirWires", SigRef(sig))>>]
  IN IF removed.thrown THEN removed
     ELSE IF sig \notin netSignals THEN removed
     ELSE IF here /\ fail.stage = "build" THEN [asked EXCEPT !.thrown = TRUE]
     ELSE addNewAirWires(
            [asked EXCEPT !.log = @ \o <<Ev("pointPairs", <<sig, built[sig]>>)>>],
            sig, 1, built[sig], IF here /\ fail.stage = "add" THEN fail.k ELSE 0)

\* a loop that goes on with the next signal after an exception
RECURSIVE rebuildSignalsContinue(_, _, _, _)
rebuildSignalsContinue(st, todo, built, fail) ==
  IF todo = <<>> THEN st
  ELSE LET done == rebuildSignal([st EXCEPT !.thrown = FALSE], Head(todo), built, fail)
       IN rebuildSignalsContinue([done EXCEPT !.thrown = st.thrown \/ done.thrown],
                                 Tail(todo), built, fail)

\* lines 561-581: the loop; an exception leaves it
RECURSIVE rebuildSignals(_, _, _, _)
rebuildSignals(st, todo, built, fail) ==
  IF todo = <<>> \/ st.thrown THEN st
  ELSE rebuildSignals(rebuildSignal(st, Head(todo), built, fail), Tail(todo),
                      built, fail)

\* BoardAirWiresBuilder joins the pads of the devices and the points of the
\* net segments of a signal: a board without either has no air wire to build
hasAnchors == DeviceList(mDeviceInstances) \o mNetSegments # <<>>

\* what the collaborators can do in a rebuild of the signals of scheduled, as
\* [order, built, fail]: nothing is chosen for a signal that is not rebuilt,
\* and the call that throws is one the rebuild makes
RebuildChoices(scheduled, airWires) ==
  LET orders == IF Cardinality(scheduled) <= 1 THEN {NetSignalOrder} ELSE Orders
      builts == {b \in BuiltChoices :
                   \A s \in NetSignalSet :
                     (s \notin (scheduled \cap netSignals) \/ ~hasAnchors) => b[s] = 0}
      fails(b) == {f \in FailChoices :
                     /\ f.sig \in scheduled \cup {"none"}
                     /\ f.stage = "remove" => f.k <= Len(airWires[f.sig])
                     /\ f.stage = "build" => f.sig \in netSignals
                     /\ f.stage = "add" => f.sig \in netSignals /\ f.k <= b[f.sig]}
  IN UNION {{[order |-> o, built |-> b, fail |-> f] : o \in orders, f \in fails(b)}
            : b \in builts}

\* the choice of a call that rebuilds nothing
NoRebuild ==
  [order |-> NetSignalOrder, built |-> [s \in NetSignalSet |-> 0], fail |-> NoFail]

\* a rebuild that does not look at the flag
triggerAirWiresRebuildAlways(isAdded, st, order, built, fail) ==
  LET done == rebuildSignals(st, Restrict(order, st.scheduled), built, fail)
  IN IF done.thrown
     THEN [done EXCEPT !.log = @ \o <<Ev("qCritical", NoItem)>>]
     ELSE [done EXCEPT !.scheduled = {}]

\* Board::triggerAirWiresRebuild
triggerAirWiresRebuild(isAdded, st, order, built, fail) ==
  IF ~isAdded THEN st
  ELSE LET done == rebuildSignals(st, Restrict(order, st.scheduled), built, fail)
       IN IF done.thrown   \* caught at line 583: clear() was skipped
          THEN [done EXCEPT !.log = @ \o <<Ev("qCritical", NoItem)>>]
          ELSE [done EXCEPT !.scheduled = {}]

\* forceAirWiresRebuild without the keys of mAirWires (line 592)
forceAirWiresRebuildNoKeys(isAdded, st, order, built, fail) ==
  LET circuitSignals == [st EXCEPT !.scheduled = @ \cup netSignals]
  IN triggerAirWiresRebuild(
       isAdded,
       [circuitSignals EXCEPT !.log = @ \o <<Ev("triggerAirWiresRebuild", NoItem)>>],
       order, built, fail)

\* Board::forceAirWiresRebuild
forceAirWiresRebuild(isAdded, st, order, built, fail) ==
  LET circuitSignals == [st EXCEPT !.scheduled = @ \cup netSignals]
      withKeys == [circuitSignals EXCEPT !.scheduled =
                     @ \cup {s \in NetSignalSet : st.airWires[s] # <<>>}]
  IN triggerAirWiresRebuild(
       isAdded, [withKeys EXCEPT !.log = @ \o <<Ev("triggerAirWiresRebuild", NoItem)>>],
       order, built, fail)

(***************************************************************************)
(* Item methods.  throws says whether the item's addToBoard() or            *)
(* removeFromBoard(), if the method calls it, throws.                       *)
(***************************************************************************)
\* everything but the item collections, op and log
besidesItems == <<mIsAddedToProject, dirInProject, airwires, calculatedFragments,
                  circuit>>

\* if (mIsAddedToProject) item.addToBoard();
attach(item) == IF mIsAddedToProject THEN addedToBoard \cup {item} ELSE addedToBoard
attachCalls(item) == IF mIsAddedToProject THEN <<Ev("addToBoard", item)>> ELSE <<>>

\* a remove method that leaves the item added to the board
detachNever(item) == addedToBoard

\* if (mIsAddedToProject) item.removeFromBoard();
detach(item) == IF mIsAddedToProject THEN addedToBoard \ {item} ELSE addedToBoard
detachCalls(item) == IF mIsAddedToProject THEN <<Ev("removeFromBoard", item)>> ELSE <<>>

\* BI_Base: addToBoard() throws on an item that is added to the board already,
\* removeFromBoard() on one that is not; either may throw for other reasons
addToBoardThrows(item, throws) == throws \/ item \in addedToBoard
removeFromBoardThrows(item, throws) == throws \/ item \notin addedToBoard

\* a method that threw: nothing was assigned
Thrown(name, item, result, calls) ==
  /\ Return(name, item, result, calls)
  /\ UNCHANGED <<collections, besidesItems, addedToBoard,
                 mErcMsgListUnplacedComponentInstances>>

\* line 366
addDeviceInstanceLogicError(instance) == getBoard(instance) # "this"

\* addDeviceInstance without the look-up of the component instance
addDeviceInstanceNoLookup(instance) == FALSE

\* lines 370-371
addDeviceInstanceRuntimeError(instance) ==
  getDeviceInstanceByComponentUuid(getComponentInstanceUuid(instance)) # NoItem

\* Board::addDeviceInstance
addDeviceInstance(instance, throws) ==
  /\ throws => mIsAddedToProject
  /\ IF addDeviceInstanceLogicError(instance)
     THEN Thrown("addDeviceInstance", instance, "LogicError", <<>>)
     ELSE IF addDeviceInstanceRuntimeError(instance)
     THEN Thrown("addDeviceInstance", instance, "RuntimeError", <<>>)
     ELSE IF mIsAddedToProject /\ addToBoardThrows(instance, throws)
     THEN Thrown("addDeviceInstance", instance, "Exception", attachCalls(instance))
     ELSE /\ NumItems < MaxItems
          /\ addedToBoard' = attach(instance)
          /\ mDeviceInstances' =
               [mDeviceInstances EXCEPT ![getComponentInstanceUuid(instance)] = instance]
          /\ mErcMsgListUnplacedComponentInstances' =
               updateErcMessages(mIsAddedToProject, componentInstances,
                                 mDeviceInstances',
                                 mErcMsgListUnplacedComponentInstances)
          /\ Return("addDeviceInstance", instance, "ok",
                    attachCalls(instance) \o <<Ev("updateErcMessages", NoItem)>>)
          /\ UNCHANGED <<mNetSegments, mPlanes, mPolygons, mStrokeTexts, mHoles,
                         besidesItems>>

\* line 386
removeDeviceInstanceLogicError(instance) ==
  mDeviceInstances[getComponentInstanceUuid(instance)] = NoItem

\* Board::removeDeviceInstance
removeDeviceInstance(instance, throws) ==
  /\ throws => mIsAddedToProject
  /\ IF removeDeviceInstanceLogicError(instance)
     THEN Thrown("removeDeviceInstance", instance, "LogicError", <<>>)
     ELSE IF mIsAddedToProject /\ removeFromBoardThrows(instance, throws)
     THEN Thrown("removeDeviceInstance", instance, "Exception", detachCalls(instance))
     ELSE /\ addedToBoard' = detach(instance)
          /\ mDeviceInstances' =
               [mDeviceInstances EXCEPT ![getComponentInstanceUuid(instance)] = NoItem]
          /\ mErcMsgListUnplacedComponentInstances' =
               updateErcMessages(mIsAddedToProject, componentInstances,
                                 mDeviceInstances',
                                 mErcMsgListUnplacedComponentInstances)
          /\ Return("removeDeviceInstance", instance, "ok",
                    detachCalls(instance) \o <<Ev("updateErcMessages", NoItem)>>)
          /\ UNCHANGED <<mNetSegments, mPlanes, mPolygons, mStrokeTexts, mHoles,
                         besidesItems>>

\* lines 409-410
addNetSegmentLogicError(netsegment) ==
  contains(mNetSegments, netsegment) \/ getBoard(netsegment) # "this"

\* line 414
addNetSegmentRuntimeError(netsegment) ==
  getNetSegmentByUuid(getUuid(netsegment)) # NoItem

\* Board::addNetSegment
addNetSegment(netsegment, throws) ==
  /\ throws => mIsAddedToProject
  /\ IF addNetSegmentLogicError(netsegment)
     THEN Thrown("addNetSegment", netsegment, "LogicError", <<>>)
     ELSE IF addNetSegmentRuntimeError(netsegment)
     THEN Thrown("addNetSegment", netsegment, "RuntimeError", <<>>)
     ELSE IF mIsAddedToProject /\ addToBoardThrows(netsegment, throws)
     THEN Thrown("addNetSegment", netsegment, "Exception", attachCalls(netsegment))
     ELSE /\ NumItems < MaxItems
          /\ addedToBoard' = attach(netsegment)
          /\ mNetSegments' = Append(mNetSegments, netsegment)
          /\ Return("addNetSegment", netsegment, "ok", attachCalls(netsegment))
          /\ UNCHANGED <<mDeviceInstances, mPlanes, mPolygons, mStrokeTexts, mHoles,
                         besidesItems, mErcMsgListUnplacedComponentInstances>>

\* line 427
removeNetSegmentLogicError(netsegment) == ~contains(mNetSegments, netsegment)

\* Board::removeNetSegment
removeNetSegment(netsegment, throws) ==
  /\ throws => mIsAddedToProject
  /\ IF removeNetSegmentLogicError(netsegment)
     THEN Thrown("removeNetSegment", netsegment, "LogicError", <<>>)
     ELSE IF mIsAddedToProject /\ removeFromBoardThrows(netsegment, throws)
     THEN Thrown("removeNetSegment", netsegment, "Exception", detachCalls(netsegment))
     ELSE /\ addedToBoard' = detach(netsegment)
          /\ mNetSegments' = removeOne(mNetSegments, netsegment)
          /\ Return("removeNetSegment", netsegment, "ok", detachCalls(netsegment))
          /\ UNCHANGED <<mDeviceInstances, mPlanes, mPolygons, mStrokeTexts, mHoles,
                         besidesItems, mErcMsgListUnplacedComponentInstances>>

\* line 448
addPlaneLogicError(plane) == contains(mPlanes, plane) \/ getBoard(plane) # "this"

\* Board::addPlane
addPlane(plane, throws) ==
  /\ throws => mIsAddedToProject
  /\ IF addPlaneLogicError(plane)
     THEN Thrown("addPlane", plane, "LogicError", <<>>)
     ELSE IF mIsAddedToProject /\ addToBoardThrows(plane, throws)
     THEN Thrown("addPlane", plane, "Exception", attachCalls(plane))
     ELSE /\ NumItems < MaxItems
          /\ addedToBoard' = attach(plane)
          /\ mPlanes' = Append(mPlanes, plane)
          /\ Return("addPlane", plane, "ok", attachCalls(plane))
          /\ UNCHANGED <<mDeviceInstances, mNetSegments, mPolygons, mStrokeTexts,
                         mHoles, besidesItems, mErcMsgListUnplacedComponentInstances>>

\* line 458
removePlaneLogicError(plane) == ~contains(mPlanes, plane)

\* Board::removePlane
removePlane(plane, throws) ==
  /\ throws => mIsAddedToProject
  /\ IF removePlaneLogicError(plane)
     THEN Thrown("removePlane", plane, "LogicError", <<>>)
     ELSE IF mIsAddedToProject /\ removeFromBoardThrows(plane, throws)
     THEN Thrown("removePlane", plane, "Exception", detachCalls(plane))
     ELSE /\ addedToBoard' = detach(plane)
          /\ mPlanes' = removeOne(mPlanes, plane)
          /\ Return("removePlane", plane, "ok", detachCalls(plane))
          /\ UNCHANGED <<mDeviceInstances, mNetSegments, mPolygons, mStrokeTexts,
                         mHoles, besidesItems, mErcMsgListUnplacedComponentInstances>>

\* addPolygon without the test of line 484
addPolygonNoCheck(polygon) == FALSE

\* line 484
addPolygonLogicError(polygon) ==
  contains(mPolygons, polygon) \/ getBoard(polygon) # "this"

\* addPolygon that puts the polygon at the front of mPolygons
addPolygonCallFront(name, polygon, throws) ==
  /\ throws => mIsAddedToProject
  /\ IF addPolygonLogicError(polygon)
     THEN Thrown(name, polygon, "LogicError", <<>>)
     ELSE IF mIsAddedToProject /\ addToBoardThrows(polygon, throws)
     THEN Thrown(name, polygon, "Exception", attachCalls(polygon))
     ELSE /\ NumItems < MaxItems
          /\ addedToBoard' = attach(polygon)
          /\ mPolygons' = <<polygon>> \o mPolygons
          /\ Return(name, polygon, "ok", attachCalls(polygon))
          /\ UNCHANGED <<mDeviceInstances, mNetSegments, mPlanes, mStrokeTexts,
                         mHoles, besidesItems, mErcMsgListUnplacedComponentInstances>>

\* Board::addPolygon, called as method name (by the caller or by the command)
addPolygonCall(name, polygon, throws) ==
  /\ throws => mIsAddedToProject
  /\ IF addPolygonLogicError(polygon)
     THEN Thrown(name, polygon, "LogicError", <<>>)
     ELSE IF mIsAddedToProject /\ addToBoardThrows(polygon, throws)
     THEN Thrown(name, polygon, "Exception", attachCalls(polygon))
     ELSE /\ NumItems < MaxItems
          /\ addedToBoard' = attach(polygon)
          /\ mPolygons' = Append(mPolygons, polygon)
          /\ Return(name, polygon, "ok", attachCalls(polygon))
          /\ UNCHANGED <<mDeviceInstances, mNetSegments, mPlanes, mStrokeTexts,
                         mHoles, besidesItems, mErcMsgListUnplacedComponentInstances>>

addPolygon(polygon, throws) == addPolygonCall("addPolygon", polygon, throws)

\* line 494
removePolygonLogicError(polygon) == ~contains(mPolygons, polygon)

\* removePolygon with removeOne() ahead of removeFromBoard()
removePolygonCallEarly(name, polygon, throws) ==
  /\ throws => mIsAddedToProject
  /\ IF removePolygonLogicError(polygon)
     THEN Thrown(name, polygon, "LogicError", <<>>)
     ELSE /\ mPolygons' = removeOne(mPolygons, polygon)
          /\ IF mIsAddedToProject /\ removeFromBoardThrows(polygon, throws)
             THEN /\ Return(name, polygon, "Exception", detachCalls(polygon))
                  /\ UNCHANGED addedToBoard
             ELSE /\ Return(name, polygon, "ok", detachCalls(polygon))
                  /\ addedToBoard' = detach(polygon)
          /\ UNCHANGED <<mDeviceInstances, mNetSegments, mPlanes, mStrokeTexts,
                         mHoles, besidesItems, mErcMsgListUnplacedComponentInstances>>

\* Board::removePolygon, called as method name (by the caller or by the command)
removePolygonCall(name, polygon, throws) ==
  /\ throws => mIsAddedToProject
  /\ IF removePolygonLogicError(polygon)
     THEN Thrown(name, polygon, "LogicError", <<>>)
     ELSE IF mIsAddedToProject /\ removeFromBoardThrows(polygon, throws)
     THEN Thrown(name, polygon, "Exception", detachCalls(polygon))
     ELSE /\ addedToBoard' = detach(polygon)
          /\ mPolygons' = removeOne(mPolygons, polygon)
          /\ Return(name, polygon, "ok", detachCalls(polygon))
          /\ UNCHANGED <<mDeviceInstances, mNetSegments, mPlanes, mStrokeTexts,
                         mHoles, besidesItems, mErcMsgListUnplacedComponentInstances>>

removePolygon(polygon, throws) == removePolygonCall("removePolygon", polygon, throws)

\* line 508
addStrokeTextLogicError(text) == contains(mStrokeTexts, text) \/ getBoard(text) # "this"

\* Board::addStrokeText
addStrokeText(text, throws) ==
  /\ throws => mIsAddedToProject
  /\ IF addStrokeTextLogicError(text)
     THEN Thrown("addStrokeText", text, "LogicError", <<>>)
     ELSE IF mIsAddedToProject /\ addToBoardThrows(text, throws)
     THEN Thrown("addStrokeText", text, "Exception", attachCalls(text))
     ELSE /\ NumItems < MaxItems
          /\ addedToBoard' = attach(text)
          /\ mStrokeTexts' = Append(mStrokeTexts, text)
          /\ Return("addStrokeText", text, "ok", attachCalls(text))
          /\ UNCHANGED <<mDeviceInstances, mNetSegments, mPlanes, mPolygons, mHoles,
                         besidesItems, mErcMsgListUnplacedComponentInstances>>

\* line 518
removeStrokeTextLogicError(text) == ~contains(mStrokeTexts, text)

\* Board::removeStrokeText
removeStrokeText(text, throws) ==
  /\ throws => mIsAddedToProject
  /\ IF removeStrokeTextLogicError(text)
     THEN Thrown("removeStrokeText", text, "LogicError", <<>>)
     ELSE IF mIsAddedToProject /\ removeFromBoardThrows(text, throws)
     THEN Thrown("removeStrokeText", text, "Exception", detachCalls(text))
     ELSE /\ addedToBoard' = detach(text)
          /\ mStrokeTexts' = removeOne(mStrokeTexts, text)
          /\ Return("removeStrokeText", text, "ok", detachCalls(text))
          /\ UNCHANGED <<mDeviceInstances, mNetSegments, mPlanes, mPolygons, mHoles,
                         besidesItems, mErcMsgListUnplacedComponentInstances>>

\* addHole without the test of line 532
addHoleNoCheck(hole) == FALSE

\* line 532
addHoleLogicError(hole) == contains(mHoles, hole) \/ getBoard(hole) # "this"

\* Board::addHole
addHole(hole, throws) ==
  /\ throws => mIsAddedToProject
  /\ IF addHoleLogicError(hole)
     THEN Thrown("addHole", hole, "LogicError", <<>>)
     ELSE IF mIsAddedToProject /\ addToBoardThrows(hole, throws)
     THEN Thrown("addHole", hole, "Exception", attachCalls(hole))
     ELSE /\ NumItems < MaxItems
          /\ addedToBoard' = attach(hole)
          /\ mHoles' = Append(mHoles, hole)
          /\ Return("addHole", hole, "ok", attachCalls(hole))
          /\ UNCHANGED <<mDeviceInstances, mNetSegments, mPlanes, mPolygons, mStrokeTexts,
                         besidesItems, mErcMsgListUnplacedComponentInstances>>

\* line 542
removeHoleLogicError(hole) == ~contains(mHoles, hole)

\* Board::removeHole
removeHole(hole, throws) ==
  /\ throws => mIsAddedToProject
  /\ IF removeHoleLogicError(hole)
     THEN Thrown("removeHole", hole, "LogicError", <<>>)
     ELSE IF mIsAddedToProject /\ removeFromBoardThrows(hole, throws)
     THEN Thrown("removeHole", hole, "Exception", detachCalls(hole))
     ELSE /\ addedToBoard' = detach(hole)
          /\ mHoles' = removeOne(mHoles, hole)
          /\ Return("removeHole", hole, "ok", detachCalls(hole))
          /\ UNCHANGED <<mDeviceInstances, mNetSegments, mPlanes, mPolygons, mStrokeTexts,
                         besidesItems, mErcMsgListUnplacedComponentInstances>>

(***************************************************************************)
(* CmdBoardPolygonRemove, constructed for mPolygon of this board            *)
(***************************************************************************)
\* CmdBoardPolygonRemove::performRedo
performRedo(mPolygon, throws) == removePolygonCall("performRedo", mPolygon, throws)

\* CmdBoardPolygonRemove::performExecute
performExecute(mPolygon, throws) ==
  removePolygonCall("performExecute", mPolygon, throws)

\* an undo that removes the polygon once more
performUndoRemoves(mPolygon, throws) ==
  removePolygonCall("performUndo", mPolygon, throws)

\* CmdBoardPolygonRemove::performUndo
performUndo(mPolygon, throws) == addPolygonCall("performUndo", mPolygon, throws)

(***************************************************************************)
(* Board::addToProject, Board::removeFromProject                            *)
(***************************************************************************)
\* the calls name(items[1]) .. name(items[n])
callsOn(name, items, n) == [i \in 1..n |-> Ev(name, items[i])]

\* ~ScopeGuardList: the guards added for items[1..n] run last added first
rollback(name, items, n) == [i \in 1..n |-> Ev(name, items[n + 1 - i])]

\* attachLoop with guards that run first added first
attachLoopForward(items, failAt) ==
  IF failAt \in 1..Len(items)
  THEN callsOn("addToBoard", items, failAt)
       \o callsOn("removeFromBoard", items, failAt - 1)
  ELSE callsOn("addToBoard", items, Len(items))

\* lines 729-733: the loop attaches items in order; the failAt-th addToBoard()
\* throws (none if failAt is no index of items)
attachLoop(items, failAt) ==
  IF failAt \in 1..Len(items)
  THEN callsOn("addToBoard", items, failAt)
       \o rollback("removeFromBoard", items, failAt - 1)
  ELSE callsOn("addToBoard", items, Len(items))

\* line 736: the directory is moved only if it is not in the project yet
addToProjectMoves == ~dirInProject

\* addToProject with forceAirWiresRebuild() ahead of the assignment of the flag
addToProjectCommitLate(calls, choice) ==
  LET st == [airWires |-> mAirWires,
             scheduled |-> mScheduledNetSignalsForAirWireRebuild,
             added |-> addedToBoard \cup Range(getAllItems),
             log |-> calls \o <<Ev("forceAirWiresRebuild", NoItem)>>,
             thrown |-> FALSE]
      rebuilt == forceAirWiresRebuild(mIsAddedToProject, st, choice.order,
                                      choice.built, choice.fail)
  IN /\ mIsAddedToProject' = TRUE
     /\ dirInProject' = TRUE
     /\ mAirWires' = rebuilt.airWires
     /\ mScheduledNetSignalsForAirWireRebuild' = rebuilt.scheduled
     /\ addedToBoard' = rebuilt.added
     /\ mErcMsgListUnplacedComponentInstances' =
          updateErcMessages(TRUE, componentInstances, mDeviceInstances,
                            mErcMsgListUnplacedComponentInstances)
     /\ Return("addToProject", NoItem, "ok",
               rebuilt.log \o <<Ev("mIsAddedToProject", NoItem),
                                Ev("updateErcMessages", NoItem)>>)
     /\ UNCHANGED <<collections, calculatedFragments, circuit>>

\* lines 742-744, after the loop and the move: the flag, the air wires, the
\* messages
addToProjectCommit(calls, choice) ==
  LET isAdded == TRUE
      st == [airWires |-> mAirWires,
             scheduled |-> mScheduledNetSignalsForAirWireRebuild,
             added |-> addedToBoard \cup Range(getAllItems),
             log |-> calls \o <<Ev("mIsAddedToProject", NoItem),
                                Ev("forceAirWiresRebuild", NoItem)>>,
             thrown |-> FALSE]
      rebuilt == forceAirWiresRebuild(isAdded, st, choice.order, choice.built,
                                      choice.fail)
  IN /\ mIsAddedToProject' = isAdded
     /\ dirInProject' = TRUE
     /\ mAirWires' = rebuilt.airWires
     /\ mScheduledNetSignalsForAirWireRebuild' = rebuilt.scheduled
     /\ addedToBoard' = rebuilt.added
     /\ mErcMsgListUnplacedComponentInstances' =
          updateErcMessages(isAdded, componentInstances, mDeviceInstances,
                            mErcMsgListUnplacedComponentInstances)
     /\ Return("addToProject", NoItem, "ok",
               rebuilt.log \o <<Ev("updateErcMessages", NoItem)>>)
     /\ UNCHANGED <<collections, calculatedFragments, circuit>>

\* the signals forceAirWiresRebuild schedules
forcedSignals ==
  mScheduledNetSignalsForAirWireRebuild \cup netSignals
  \cup {s \in NetSignalSet : mAirWires[s] # <<>>}

\* what the collaborators can do in addToProject
addToProjectChoices(failAt) ==
  IF failAt = 0 /\ ~mIsAddedToProject
  THEN RebuildChoices(forcedSignals, mAirWires)
  ELSE {NoRebuild}

\* addToProject without the check of the flag
addToProjectNoCheck == FALSE

\* line 723
addToProjectLogicError == mIsAddedToProject

\* Board::addToProject.  failAt: the index in the snapshot of the item whose
\* addToBoard() throws, Len + 1 if moveTo() throws, 0 if nothing throws.
addToProject(failAt, choice) ==
  LET items == getAllItems
      n == Len(items)
  IN IF addToProjectLogicError
     THEN /\ failAt = 0
          /\ choice = NoRebuild
          /\ Thrown("addToProject", NoItem, "LogicError", <<>>)
     ELSE /\ failAt \in 0..(n + 1)
          /\ failAt = n + 1 => addToProjectMoves
          /\ IF failAt \in 1..n
             THEN /\ choice = NoRebuild
                  /\ addedToBoard' =
                       addedToBoard \ {items[i] : i \in 1..(failAt - 1)}
                  /\ Return("addToProject", NoItem, "Exception",
                            attachLoop(items, failAt))
                  /\ UNCHANGED <<collections, besidesItems,
                                 mErcMsgListUnplacedComponentInstances>>
             ELSE IF failAt = n + 1
             THEN /\ choice = NoRebuild
                  /\ addedToBoard' = addedToBoard \ Range(items)
                  /\ Return("addToProject", NoItem, "Exception",
                            attachLoop(items, 0) \o <<Ev("moveTo", NoItem)>>
                            \o rollback("removeFromBoard", items, n))
                  /\ UNCHANGED <<collections, besidesItems,
                                 mErcMsgListUnplacedComponentInstances>>
             ELSE addToProjectCommit(
                    attachLoop(items, 0)
                    \o (IF addToProjectMoves THEN <<Ev("moveTo", NoItem)>> ELSE <<>>),
                    choice)

\* detachLoop over the items first to last
detachLoopForward(items, failAt) ==
  IF failAt \in 1..Len(items)
  THEN callsOn("removeFromBoard", items, failAt)
       \o rollback("addToBoard", items, failAt - 1)
  ELSE callsOn("removeFromBoard", items, Len(items))

\* lines 755-759: the loop detaches items last first; the failAt-th
\* removeFromBoard() throws (none if failAt is no index of items)
detachLoop(items, failAt) ==
  IF failAt \in 1..Len(items)
  THEN callsOn("removeFromBoard", Reverse(items), failAt)
       \o rollback("addToBoard", Reverse(items), failAt - 1)
  ELSE callsOn("removeFromBoard", Reverse(items), Len(items))

\* line 749
removeFromProjectLogicError == ~mIsAddedToProject

\* Board::removeFromProject.  failAt: the number of the removeFromBoard() call
\* that throws, Len + 1 if moveTo() throws, 0 if nothing throws.
removeFromProject(failAt) ==
  LET items == getAllItems
      n == Len(items)
  IN IF removeFromProjectLogicError
     THEN /\ failAt = 0
          /\ Thrown("removeFromProject", NoItem, "LogicError", <<>>)
     ELSE /\ failAt \in 0..(n + 1)
          /\ IF failAt \in 1..n
             THEN /\ addedToBoard' =
                       addedToBoard \cup {Reverse(items)[i] : i \in 1..(failAt - 1)}
                  /\ Return("removeFromProject", NoItem, "Exception",
                            detachLoop(items, failAt))
                  /\ UNCHANGED <<collections, besidesItems,
                                 mErcMsgListUnplacedComponentInstances>>
             ELSE IF failAt = n + 1
             THEN /\ addedToBoard' = addedToBoard \cup Range(items)
                  /\ Return("removeFromProject", NoItem, "Exception",
                            detachLoop(items, 0) \o <<Ev("moveTo", NoItem)>>
                            \o rollback("addToBoard", Reverse(items), n))
                  /\ UNCHANGED <<collections, besidesItems,
                                 mErcMsgListUnplacedComponentInstances>>
             ELSE /\ mIsAddedToProject' = FALSE
                  /\ dirInProject' = FALSE
                  /\ addedToBoard' = addedToBoard \ Range(items)
                  /\ mErcMsgListUnplacedComponentInstances' =
                       updateErcMessages(FALSE, componentInstances, mDeviceInstances,
                                         mErcMsgListUnplacedComponentInstances)
                  /\ Return("removeFromProject", NoItem, "ok",
                            detachLoop(items, 0)
                            \o <<Ev("moveTo", NoItem), Ev("mIsAddedToProject", NoItem),
                                 Ev("updateErcMessages", NoItem)>>)
                  /\ UNCHANGED <<collections, airwires, calculatedFragments, circuit>>

(***************************************************************************)
(* Planes: Board::rebuildAllPlanes                                          *)
(***************************************************************************)
\* a comparator that puts the lowest priority first
lowestPriorityFirst(p1, p2) == ~(getPriority(p2) < getPriority(p1))

\* lines 470-472, the comparator handed to std::sort: !(*p1 < *p2), where
\* BI_Plane::operator< compares the priorities
highestPriorityFirst(p1, p2) == ~(getPriority(p1) < getPriority(p2))

\* std::sort on a short range is an insertion sort: plane moves towards the
\* front past every element the comparator puts it before
insertPlane(sorted, plane) ==
  LET n == Len(sorted)
      stop == IF \E k \in 1..n : ~highestPriorityFirst(plane, sorted[k])
              THEN CHOOSE k \in 1..n :
                     /\ ~highestPriorityFirst(plane, sorted[k])
                     /\ \A j \in (k + 1)..n : highestPriorityFirst(plane, sorted[j])
              ELSE 0
  IN SubSeq(sorted, 1, stop) \o <<plane>> \o SubSeq(sorted, stop + 1, n)

\* lines 468-472: the copy of mPlanes, sorted
RECURSIVE sortPlanes(_, _)
sortPlanes(sorted, planes) ==
  IF planes = <<>> THEN sorted
  ELSE sortPlanes(insertPlane(sorted, Head(planes)), Tail(planes))

\* lines 473-476: what the loop calls for the planes of planes
RECURSIVE buildCalls(_)
buildCalls(planes) ==
  IF planes = <<>> THEN <<>>
  ELSE <<Ev("buildFragments", Head(planes)),
         Ev("setCalculatedFragments", Head(planes))>> \o buildCalls(Tail(planes))

\* the fragments of every plane after the loop over planes
builtFragments(fragments, planes) ==
  [plane \in AllPlanes |-> IF contains(planes, plane) THEN "built" ELSE fragments[plane]]

\* Board::rebuildAllPlanes
rebuildAllPlanes ==
  LET planes == sortPlanes(<<>>, mPlanes)
  IN /\ calculatedFragments' = builtFragments(calculatedFragments, planes)
     /\ Return("rebuildAllPlanes", NoItem, "ok", buildCalls(planes))
     /\ UNCHANGED <<collections, mIsAddedToProject, dirInProject, airwires,
                    circuit, addedToBoard, mErcMsgListUnplacedComponentInstances>>

(***************************************************************************)
(* Board::Board: a new board is empty (create), or holds what board.lp      *)
(* lists.  The constructor ends with rebuildAllPlanes and updateErcMessages.*)
(***************************************************************************)
Native(items) == {item \in items : getBoard(item) = "this"}

\* the lists of distinct items of set with at most MaxItems entries
ListsOf(set) ==
  UNION {{list \in [1..n -> set] : \A i, j \in 1..n : i # j => list[i] # list[j]}
         : n \in 0..MaxItems}

\* lines 145-156: one device per component instance, or the constructor throws
LoadedDevices ==
  {devices \in [ComponentUuids -> Native(Devices) \cup {NoItem}] :
     \A c \in ComponentUuids :
       devices[c] # NoItem => getComponentInstanceUuid(devices[c]) = c}

\* lines 159-168: one net segment per uuid, or the constructor throws
LoadedNetSegments ==
  {list \in ListsOf(Native(NetSegments)) :
     \A i, j \in 1..Len(list) : i # j => getUuid(list[i]) # getUuid(list[j])}

\* the board after construction in a project whose circuit holds signals,
\* from a file whose list of planes is one of planeLists
Constructed(signals, planeLists) ==
  /\ mIsAddedToProject = FALSE
  /\ dirInProject \in BOOLEAN
  /\ mDeviceInstances \in LoadedDevices
  /\ mNetSegments \in LoadedNetSegments
  /\ mPlanes \in planeLists
  /\ mPolygons \in ListsOf(Native(Polygons))
  /\ mStrokeTexts \in ListsOf(Native(StrokeTexts))
  /\ mHoles \in ListsOf(Native(Holes))
  /\ NumItems <= MaxItems
  /\ mAirWires = [s \in NetSignalSet |-> <<>>]
  /\ mScheduledNetSignalsForAirWireRebuild = {}
  /\ mErcMsgListUnplacedComponentInstances = {}
  /\ calculatedFragments =
       [plane \in AllPlanes |-> IF contains(mPlanes, plane) THEN "built" ELSE "none"]
  /\ componentInstances = ComponentUuids
  /\ netSignals = signals
  /\ addedToBoard = {}
  /\ op = [name |-> "Board", arg |-> NoItem, result |-> "ok"]
  /\ log = <<>>

\* a board of a project whose circuit holds the net signal s1, from a file
\* that lists no plane
Init == Constructed({"s1"}, {<<>>})

Next ==
  \/ \E instance \in Devices, throws \in BOOLEAN : addDeviceInstance(instance, throws)
  \/ \E instance \in Devices, throws \in BOOLEAN : removeDeviceInstance(instance, throws)
  \/ \E netsegment \in NetSegments, throws \in BOOLEAN : addNetSegment(netsegment, throws)
  \/ \E netsegment \in NetSegments, throws \in BOOLEAN : removeNetSegment(netsegment, throws)
  \/ \E plane \in Planes, throws \in BOOLEAN : addPlane(plane, throws)
  \/ \E plane \in Planes, throws \in BOOLEAN : removePlane(plane, throws)
  \/ \E polygon \in Polygons, throws \in BOOLEAN : addPolygon(polygon, throws)
  \/ \E polygon \in Polygons, throws \in BOOLEAN : removePolygon(polygon, throws)
  \/ \E text \in StrokeTexts, throws \in BOOLEAN : addStrokeText(text, throws)
  \/ \E text \in StrokeTexts, throws \in BOOLEAN : removeStrokeText(text, throws)
  \/ \E hole \in Holes, throws \in BOOLEAN : addHole(hole, throws)
  \/ \E hole \in Holes, throws \in BOOLEAN : removeHole(hole, throws)
  \/ \E polygon \in Native(Polygons), throws \in BOOLEAN : performExecute(polygon, throws)
  \/ \E polygon \in Native(Polygons), throws \in BOOLEAN : performUndo(polygon, throws)
  \/ \E polygon \in Native(Polygons), throws \in BOOLEAN : performRedo(polygon, throws)
  \/ \E failAt \in 0..(Len(getAllItems) + 1) :
        \E choice \in addToProjectChoices(failAt) : addToProject(failAt, choice)
  \/ \E failAt \in 0..(Len(getAllItems) + 1) : removeFromProject(failAt)

Spec == Init /\ [][Next]_vars

(***************************************************************************)
(* A board whose file lists planes only, in a project without net signals:  *)
(* the planes are added, removed and rebuilt.                               *)
(***************************************************************************)
\* the lists of distinct planes of this board a file can hold
PlaneLists ==
  UNION {{list \in [1..n -> Native(AllPlanes)] :
            \A i, j \in 1..n : i # j => list[i] # list[j]}
         : n \in 0..MaxPlanes}

InitPlanes ==
  /\ mIsAddedToProject = FALSE
  /\ dirInProject \in BOOLEAN
  /\ mDeviceInstances = [c \in ComponentUuids |-> NoItem]
  /\ mNetSegments = <<>>
  /\ mPlanes \in PlaneLists
  /\ mPolygons = <<>>
  /\ mStrokeTexts = <<>>
  /\ mHoles = <<>>
  /\ mAirWires = [s \in NetSignalSet |-> <<>>]
  /\ mScheduledNetSignalsForAirWireRebuild = {}
  /\ mErcMsgListUnplacedComponentInstances = {}
  /\ calculatedFragments =
       builtFragments([plane \in AllPlanes |-> "none"], sortPlanes(<<>>, mPlanes))
  /\ componentInstances = ComponentUuids
  /\ netSignals = {}
  /\ addedToBoard = {}
  /\ op = [name |-> "Board", arg |-> NoItem, result |-> "ok"]
  /\ log = <<>>

NextPlanes ==
  \/ \E plane \in AllPlanes, throws \in BOOLEAN : addPlane(plane, throws)
  \/ \E plane \in AllPlanes, throws \in BOOLEAN : removePlane(plane, throws)
  \/ rebuildAllPlanes
  \/ \E failAt \in 0..(Len(getAllItems) + 1) :
        \E choice \in addToProjectChoices(failAt) : addToProject(failAt, choice)
  \/ \E failAt \in 0..(Len(getAllItems) + 1) : removeFromProject(failAt)

SpecPlanes == InitPlanes /\ [][NextPlanes]_vars

(***************************************************************************)
(* The air wires of a board between the calls that schedule and run their   *)
(* rebuild, in a project whose circuit holds s1 or s1 and s2.               *)
(***************************************************************************)
\* Board::scheduleAirWireRebuild
scheduleAirWireRebuild(netsignal) ==
  /\ mScheduledNetSignalsForAirWireRebuild' =
       mScheduledNetSignalsForAirWireRebuild \cup {netsignal}
  /\ Return("scheduleAirWireRebuild", SigRef(netsignal), "ok", <<>>)
  /\ UNCHANGED <<collections, mIsAddedToProject, dirInProject, mAirWires,
                 calculatedFragments, circuit, addedToBoard,
                 mErcMsgListUnplacedComponentInstances>>

\* the rebuild as it starts from the board's members, with no call made yet
rebuildState(scheduled) ==
  [airWires |-> mAirWires, scheduled |-> scheduled, added |-> addedToBoard,
   log |-> <<>>, thrown |-> FALSE]

\* the board takes over what a rebuild that was called as name left
rebuildReturns(name, done) ==
  /\ mAirWires' = done.airWires
  /\ mScheduledNetSignalsForAirWireRebuild' = done.scheduled
  /\ addedToBoard' = done.added
  /\ Return(name, NoItem, "ok", done.log)
  /\ UNCHANGED <<collections, mIsAddedToProject, dirInProject,
                 calculatedFragments, circuit,
                 mErcMsgListUnplacedComponentInstances>>

\* what the collaborators can do in a rebuild of the signals of scheduled
rebuildChoices(scheduled) ==
  IF mIsAddedToProject THEN RebuildChoices(scheduled, mAirWires) ELSE {NoRebuild}

\* a call of Board::triggerAirWiresRebuild
callTriggerAirWiresRebuild(choice) ==
  rebuildReturns(
    "triggerAirWiresRebuild",
    triggerAirWiresRebuild(
      mIsAddedToProject, rebuildState(mScheduledNetSignalsForAirWireRebuild),
      choice.order, choice.built, choice.fail))

\* a call of Board::forceAirWiresRebuild
callForceAirWiresRebuild(choice) ==
  rebuildReturns(
    "forceAirWiresRebuild",
    forceAirWiresRebuild(
      mIsAddedToProject, rebuildState(mScheduledNetSignalsForAirWireRebuild),
      choice.order, choice.built, choice.fail))

\* the file lists the device 1 and nothing else
InitAirWires ==
  /\ \E signals \in {{"s1"}, {"s1", "s2"}} : Constructed(signals, {<<>>})
  /\ getAllItems = <<<<"device", 1>>>>

NextAirWires ==
  \/ \E netsignal \in NetSignalSet : scheduleAirWireRebuild(netsignal)
  \/ \E choice \in rebuildChoices(mScheduledNetSignalsForAirWireRebuild) :
        callTriggerAirWiresRebuild(choice)
  \/ \E choice \in rebuildChoices(forcedSignals) : callForceAirWiresRebuild(choice)
  \/ \E failAt \in 0..(Len(getAllItems) + 1) :
        \E choice \in addToProjectChoices(failAt) : addToProject(failAt, choice)
  \/ \E failAt \in 0..(Len(getAllItems) + 1) : removeFromProject(failAt)

SpecAirWires == InitAirWires /\ [][NextAirWires]_vars

(***************************************************************************)
(* The air wires of a board in a project whose circuit holds s1 and s2 and  *)
(* loses net signals while the board has air wires for them.                *)
(***************************************************************************)
\* line 568: from now on netsignal->isAddedToCircuit() is false
netSignalRemoved(netsignal) ==
  /\ netsignal \in netSignals
  /\ netSignals' = netSignals \ {netsignal}
  /\ Return("netSignalRemoved", SigRef(netsignal), "ok", <<>>)
  /\ UNCHANGED <<collections, mIsAddedToProject, dirInProject, airwires,
                 calculatedFragments, componentInstances, addedToBoard,
                 mErcMsgListUnplacedComponentInstances>>

\* the file lists the device 1 and nothing else
InitRebuild ==
  /\ Constructed({"s1", "s2"}, {<<>>})
  /\ getAllItems = <<<<"device", 1>>>>

NextRebuild ==
  \/ \E netsignal \in NetSignalSet : scheduleAirWireRebuild(netsignal)
  \/ \E netsignal \in NetSignalSet : netSignalRemoved(netsignal)
  \/ \E choice \in rebuildChoices(mScheduledNetSignalsForAirWireRebuild) :
        callTriggerAirWiresRebuild(choice)
  \/ \E choice \in rebuildChoices(forcedSignals) : callForceAirWiresRebuild(choice)
  \/ \E failAt \in 0..(Len(getAllItems) + 1) :
        \E choice \in addToProjectChoices(failAt) : addToProject(failAt, choice)

SpecRebuild == InitRebuild /\ [][NextRebuild]_vars

(***************************************************************************)
(* A board whose file lists devices only, in a project without net signals  *)
(* whose circuit gains and loses component instances.                       *)
(***************************************************************************)
\* the devices of the boards, with a device of this board for c2
CircuitDevices == Devices \cup {<<"device", 3>>}

\* the slot Board::updateErcMessages, run by a signal of the circuit called
\* name about component, after the circuit holds components
circuitChanged(name, component, components) ==
  /\ componentInstances' = components
  /\ mErcMsgListUnplacedComponentInstances' =
       updateErcMessages(mIsAddedToProject, components, mDeviceInstances,
                         mErcMsgListUnplacedComponentInstances)
  /\ Return(name, <<component, 0>>, "ok", <<Ev("updateErcMessages", NoItem)>>)
  /\ UNCHANGED <<collections, mIsAddedToProject, dirInProject, airwires,
                 calculatedFragments, netSignals, addedToBoard>>

\* line 235: Circuit::componentAdded
componentAdded(component) ==
  /\ component \notin componentInstances
  /\ circuitChanged("componentAdded", component,
                    componentInstances \cup {component})

\* line 237: Circuit::componentRemoved
componentRemoved(component) ==
  /\ component \in componentInstances
  /\ circuitChanged("componentRemoved", component,
                    componentInstances \ {component})

InitCircuit ==
  /\ Constructed({}, {<<>>})
  /\ NumItems = Len(DeviceList(mDeviceInstances))

NextCircuit ==
  \/ \E instance \in CircuitDevices, throws \in BOOLEAN :
        addDeviceInstance(instance, throws)
  \/ \E instance \in CircuitDevices, throws \in BOOLEAN :
        removeDeviceInstance(instance, throws)
  \/ \E component \in ComponentUuids : componentAdded(component)
  \/ \E component \in ComponentUuids : componentRemoved(component)
  \/ \E failAt \in 0..(Len(getAllItems) + 1) :
        \E choice \in addToProjectChoices(failAt) : addToProject(failAt, choice)
  \/ \E failAt \in 0..(Len(getAllItems) + 1) : removeFromProject(failAt)

SpecCircuit == InitCircuit /\ [][NextCircuit]_vars

(***************************************************************************)
(* Board::copyFrom.  The other board is [devices, netSegments, planes,      *)
(* polygons, strokeTexts, holes, fragments, vias, netPoints, netLines]: its *)
(* items in the order of its collections, the fragments its planes hold,    *)
(* and the vias, net points and net lines <<start, end>> of its net         *)
(* segment.  The device 0 has the pad <<"pad", 0>>; a pad, via or net point *)
(* carries the number of the device or net segment it belongs to.  A copy   *)
(* works on cs = [devices, netSegments, planes, polygons, strokeTexts,      *)
(* holes, added, fragments, msgs, source, devMap, log, result].             *)
(***************************************************************************)
\* the other boards: at most one item of a kind, MaxItems items together
OtherBoards ==
  {other \in [devices : {<<>>, <<<<"device", 0>>>>},
              netSegments : {<<>>, <<<<"netsegment", 0>>>>},
              planes : {<<>>, <<<<"plane", 0>>>>},
              polygons : {<<>>, <<<<"polygon", 0>>>>},
              strokeTexts : {<<>>, <<<<"stroketext", 0>>>>},
              holes : {<<>>, <<<<"hole", 0>>>>},
              fragments : {"none", "built"},
              vias : {<<>>}, netPoints : {<<>>}, netLines : {<<>>}] :
     /\ Len(other.devices) + Len(other.netSegments) + Len(other.planes)
          + Len(other.polygons) + Len(other.strokeTexts) + Len(other.holes)
          <= MaxItems
     /\ other.planes = <<>> => other.fragments = "none"}

\* the items of the other board in the order copyFrom visits them
sourceItems(other) ==
  other.devices \o other.netSegments \o other.planes \o other.polygons
  \o other.strokeTexts \o other.holes

\* the members of the copy in progress
copyMembers(cs) ==
  Range(DeviceList(cs.devices)) \cup Range(cs.netSegments) \cup Range(cs.planes)
  \cup Range(cs.polygons) \cup Range(cs.strokeTexts) \cup Range(cs.holes)

\* new BI_...(*this, ...): an object of this board that is no member; a net
\* segment, plane, polygon, stroke text or hole gets a uuid of its own
\* (Uuid::createRandom()), a device keeps the component instance.  NoItem
\* when the objects of the model are used up.
newItem(kind, cs) ==
  LET free(n) ==
        /\ <<kind, n>> \notin copyMembers(cs)
        /\ kind # "device" =>
             \A item \in copyMembers(cs) :
               item[1] = kind => getUuid(item) # getUuid(<<kind, n>>)
  IN IF \E k \in 1..3 : free(k)
     THEN <<kind, CHOOSE k \in 1..3 : free(k) /\ \A j \in 1..(k - 1) : ~free(j)>>
     ELSE NoItem

\* new BI_Via(*copy, ...), new BI_NetPoint(*copy, ...) for every element
copiesOf(name, elements, copy) ==
  [i \in 1..Len(elements) |-> Ev(name, <<elements[i][1], copy[2]>>)]

\* QHash::value on a map held as pairs <<key, value>>: NoItem (a null
\* pointer) for a key that was not inserted
value(map, key) ==
  IF \E pair \in map : pair[1] = key
  THEN (CHOOSE pair \in map : pair[1] = key)[2]
  ELSE NoItem

\* a map that hands out the pads of the devices of the other board
padAnchorsOriginal(devMap) ==
  {<<<<"pad", pair[1][2]>>, <<"pad", pair[1][2]>>>> : pair \in devMap}

\* lines 638-644: the pads of the devices copied so far, old to new
padAnchors(devMap) ==
  {<<<<"pad", pair[1][2]>>, <<"pad", pair[2][2]>>>> : pair \in devMap}

\* lines 647-662: the vias and net points of the segment, old to new; each is
\* a new object of the copy of the segment
elementAnchors(elements, copy) ==
  {<<elements[i], <<elements[i][1], copy[2]>>>> : i \in 1..Len(elements)}

\* lines 665-679: the calls that make the net lines of the copy, each from the
\* anchors the map holds for the start and the end of the line it copies
RECURSIVE netLineCalls(_, _)
netLineCalls(netLines, anchorsMap) ==
  IF netLines = <<>> THEN <<>>
  ELSE <<Ev("getStartPoint", Head(netLines)[1]),
         Ev("getEndPoint", Head(netLines)[2]),
         Ev("BI_NetLine", <<value(anchorsMap, Head(netLines)[1]),
                            value(anchorsMap, Head(netLines)[2])>>)>>
       \o netLineCalls(Tail(netLines), anchorsMap)

\* lines 637-681: the calls that fill the copy of the net segment
netSegmentCalls(cs, copy) ==
  LET vias == elementAnchors(cs.source.vias, copy)
      netPoints == elementAnchors(cs.source.netPoints, copy)
      anchorsMap == padAnchors(cs.devMap) \cup vias \cup netPoints
  IN copiesOf("BI_Via", cs.source.vias, copy)
     \o copiesOf("BI_NetPoint", cs.source.netPoints, copy)
     \o netLineCalls(cs.source.netLines, anchorsMap)
     \o <<Ev("addElements", copy)>>

\* the add method copyFrom calls for copy threw result after calls
copyThrown(cs, result, calls) ==
  [cs EXCEPT !.result = result, !.log = @ \o calls]

\* lines 619-630, 680-682, 699-719: the copy of one item and the call of its
\* add method; throws says whether its addToBoard() throws
copyItem(cs, source, throws) ==
  LET kind == source[1]
      copy == newItem(kind, cs)
      key == getComponentInstanceUuid(copy)
      written == IF kind = "plane"
                 THEN [cs EXCEPT !.fragments[copy] = cs.other,
                                 !.log = @ \o <<Ev("setCalculatedFragments", copy)>>]
                 ELSE IF kind = "netsegment"
                 THEN [cs EXCEPT !.log = @ \o netSegmentCalls(cs, copy)]
                 ELSE cs
      list == CASE kind = "netsegment" -> cs.netSegments
                [] kind = "plane" -> cs.planes
                [] kind = "polygon" -> cs.polygons
                [] kind = "stroketext" -> cs.strokeTexts
                [] kind = "hole" -> cs.holes
                [] OTHER -> <<>>
      appended == Append(list, copy)
      attached == [written EXCEPT !.added = IF mIsAddedToProject
                                            THEN @ \cup {copy} ELSE @,
                                  !.log = @ \o attachCalls(copy)]
  IN IF copy = NoItem
     THEN copyThrown(cs, "unmodelled", <<>>)
     ELSE IF kind = "device" /\ cs.devices[key] # NoItem
     THEN copyThrown(written, "RuntimeError", <<>>)
     ELSE IF /\ kind = "netsegment"
             /\ \E i \in 1..Len(list) : getUuid(list[i]) = getUuid(copy)
     THEN copyThrown(written, "RuntimeError", <<>>)
     ELSE IF mIsAddedToProject /\ throws
     THEN copyThrown(written, "Exception", attachCalls(copy))
     ELSE CASE kind = "device" ->
                 [attached EXCEPT
                    !.devices[key] = copy,
                    !.devMap = @ \cup {<<source, copy>>},
                    !.msgs = updateErcMessages(
                               mIsAddedToProject, componentInstances,
                               [cs.devices EXCEPT ![key] = copy], @),
                    !.log = @ \o <<Ev("updateErcMessages", NoItem)>>]
            [] kind = "netsegment" -> [attached EXCEPT !.netSegments = appended]
            [] kind = "plane" -> [attached EXCEPT !.planes = appended]
            [] kind = "polygon" -> [attached EXCEPT !.polygons = appended]
            [] kind = "stroketext" -> [attached EXCEPT !.strokeTexts = appended]
            [] kind = "hole" -> [attached EXCEPT !.holes = appended]

\* lines 617-719: the loops; the failAt-th add method has its addToBoard()
\* throw, and the first exception leaves copyFrom
RECURSIVE copyItems(_, _, _, _)
copyItems(cs, sources, n, failAt) ==
  IF sources = <<>> \/ cs.result # "ok" THEN cs
  ELSE copyItems(copyItem(cs, Head(sources), n = failAt), Tail(sources),
                 n + 1, failAt)

\* Board::copyFrom
copyFrom(other, failAt) ==
  LET cs == [devices |-> mDeviceInstances, netSegments |-> mNetSegments,
             planes |-> mPlanes, polygons |-> mPolygons,
             strokeTexts |-> mStrokeTexts, holes |-> mHoles,
             added |-> addedToBoard, fragments |-> calculatedFragments,
             msgs |-> mErcMsgListUnplacedComponentInstances,
             other |-> other.fragments, source |-> other, devMap |-> {},
             log |-> <<>>, result |-> "ok"]
      done == copyItems(cs, sourceItems(other), 1, failAt)
  IN /\ failAt \in 0..Len(sourceItems(other))
     /\ failAt # 0 => mIsAddedToProject
     /\ NumItems + Len(sourceItems(other)) <= MaxItems
     /\ done.result # "unmodelled"
     /\ mDeviceInstances' = done.devices
     /\ mNetSegments' = done.netSegments
     /\ mPlanes' = done.planes
     /\ mPolygons' = done.polygons
     /\ mStrokeTexts' = done.strokeTexts
     /\ mHoles' = done.holes
     /\ addedToBoard' = done.added
     /\ calculatedFragments' = done.fragments
     /\ mErcMsgListUnplacedComponentInstances' = done.msgs
     /\ Return("copyFrom", other, done.result, done.log)
     /\ UNCHANGED <<mIsAddedToProject, dirInProject, airwires, circuit>>

\* a board of a project without net signals that other boards are copied to
InitCopy == Constructed({}, {<<>>})

NextCopy ==
  \/ \E other \in OtherBoards, failAt \in 0..MaxItems : copyFrom(other, failAt)
  \/ \E plane \in AllPlanes, throws \in BOOLEAN : removePlane(plane, throws)
  \/ \E failAt \in 0..(Len(getAllItems) + 1) :
        \E choice \in addToProjectChoices(failAt) : addToProject(failAt, choice)
  \/ \E failAt \in 0..(Len(getAllItems) + 1) : removeFromProject(failAt)

SpecCopy == InitCopy /\ [][NextCopy]_vars

(***************************************************************************)
(* An empty board that other boards are copied to, among them boards whose  *)
(* net segment has vias, net points and net lines.                          *)
(***************************************************************************)
\* the pads, vias and net points a net line of the other board's net segment
\* can start or end at
anchorsOf(devices, vias, netPoints) ==
  {<<"pad", devices[i][2]>> : i \in 1..Len(devices)}
  \cup Range(vias) \cup Range(netPoints)

\* the other boards with a net segment: at most one via, one net point and
\* one net line between two of its anchors
NetBoards ==
  {other \in [devices : {<<>>, <<<<"device", 0>>>>},
              netSegments : {<<<<"netsegment", 0>>>>},
              planes : {<<>>}, polygons : {<<>>}, strokeTexts : {<<>>},
              holes : {<<>>}, fragments : {"none"},
              vias : {<<>>, <<<<"via", 0>>>>},
              netPoints : {<<>>, <<<<"netpoint", 0>>>>},
              netLines : {<<>>}
                \cup {<<<<a, b>>>> :
                        a, b \in {<<"pad", 0>>, <<"via", 0>>, <<"netpoint", 0>>}}] :
     \A i \in 1..Len(other.netLines) :
       /\ other.netLines[i][1] # other.netLines[i][2]
       /\ {other.netLines[i][1], other.netLines[i][2]}
            \subseteq anchorsOf(other.devices, other.vias, other.netPoints)}

InitCopyNets ==
  /\ Constructed({}, {<<>>})
  /\ NumItems = 0

NextCopyNets ==
  \/ \E other \in OtherBoards \cup NetBoards, failAt \in 0..MaxItems :
        copyFrom(other, failAt)
  \/ \E failAt \in 0..(Len(getAllItems) + 1) :
        \E choice \in addToProjectChoices(failAt) : addToProject(failAt, choice)
  \/ \E failAt \in 0..(Len(getAllItems) + 1) : removeFromProject(failAt)

SpecCopyNets == InitCopyNets /\ [][NextCopyNets]_vars

(***************************************************************************)
(* A board whose file lists polygons only, in a project without net         *)
(* signals: the polygons are added and removed by the caller and by the     *)
(* commands constructed for them.                                           *)
(***************************************************************************)
InitPolygons ==
  /\ Constructed({}, {<<>>})
  /\ NumItems = Len(mPolygons)

NextPolygons ==
  \/ \E polygon \in Polygons, throws \in BOOLEAN : addPolygon(polygon, throws)
  \/ \E polygon \in Polygons, throws \in BOOLEAN : removePolygon(polygon, throws)
  \/ \E polygon \in Native(Polygons), throws \in BOOLEAN : performExecute(polygon, throws)
  \/ \E polygon \in Native(Polygons), throws \in BOOLEAN : performUndo(polygon, throws)
  \/ \E polygon \in Native(Polygons), throws \in BOOLEAN : performRedo(polygon, throws)
  \/ \E failAt \in 0..(Len(getAllItems) + 1) :
        \E choice \in addToProjectChoices(failAt) : addToProject(failAt, choice)
  \/ \E failAt \in 0..(Len(getAllItems) + 1) : removeFromProject(failAt)

SpecPolygons == InitPolygons /\ [][NextPolygons]_vars

(***************************************************************************)
(* Properties                                                               *)
(***************************************************************************)
\* the items of the lists and of the device map, as sets
Members == Range(DeviceList(mDeviceInstances)) \cup Range(mNetSegments)
           \cup Range(mPlanes) \cup Range(mPolygons) \cup Range(mStrokeTexts)
           \cup Range(mHoles)

\* the number of times call occurs in calls
Count(calls, call) == Cardinality({i \in 1..Len(calls) : calls[i] = call})

\* the calls of calls named name
Named(calls, name) == {i \in 1..Len(calls) : calls[i][1] = name}

\* every item that is added to the board is an item of the board, and all of
\* them are while the board is added to the project
AddedItemsInv ==
  addedToBoard = IF mIsAddedToProject THEN Range(getAllItems) ELSE {}

\* addToProject returned with the exception of an addToBoard() call
AttachFailed ==
  /\ op.name = "addToProject"
  /\ op.result = "Exception"
  /\ Named(log, "moveTo") = {}

\* C1: when addToProject returns with the failure of the addToBoard() of the
\* i-th item of the snapshot, the calls it made are addToBoard() on items
\* 1..i in order and then removeFromBoard() on items i-1..1, each of them
\* once; no later item was called, no item is left added to the board, and
\* the board is not added to the project.
C1_TransactionalAttach ==
  AttachFailed =>
    LET items == getAllItems
    IN /\ ~mIsAddedToProject
       /\ \E i \in 1..Len(items) :
            /\ Len(log) = 2 * i - 1
            /\ \A j \in 1..i : log[j] = Ev("addToBoard", items[j])
            /\ \A j \in 1..(i - 1) : log[i + j] = Ev("removeFromBoard", items[i - j])
            /\ \A j \in 1..(i - 1) : Count(log, Ev("removeFromBoard", items[j])) = 1
            /\ \A j \in (i + 1)..Len(items), call \in Range(log) : call[2] # items[j]
       /\ addedToBoard \cap Range(items) = {}

\* C1 happens: the third item of the snapshot, an air wire, failed to attach
\* after two items of the lists
C1_Witness ==
  /\ AttachFailed
  /\ Len(log) = 5
  /\ log[3][2][1] = "airwire"

\* C2 as claimed: no two members of a collection share a key
C2_UniqueKeys ==
  /\ \A c \in ComponentUuids :
       mDeviceInstances[c] # NoItem => getComponentInstanceUuid(mDeviceInstances[c]) = c
  /\ \A list \in {mNetSegments, mPlanes, mPolygons, mStrokeTexts, mHoles} :
       \A i, j \in 1..Len(list) : i # j => getUuid(list[i]) # getUuid(list[j])

\* C3: addDeviceInstance with a second device of this board for a component
\* instance that has a device, and addNetSegment with a second net segment of
\* this board carrying the uuid of a member, throw RuntimeError, call no
\* addToBoard() and change no collection: the key keeps its one entry.
C3_DuplicateRejected ==
  [][LET item == op'.arg
         secondDevice ==
           /\ op'.name = "addDeviceInstance"
           /\ getBoard(item) = "this"
           /\ mDeviceInstances[getComponentInstanceUuid(item)] \notin {NoItem, item}
         secondNetSegment ==
           /\ op'.name = "addNetSegment"
           /\ getBoard(item) = "this"
           /\ ~contains(mNetSegments, item)
           /\ \E i \in 1..Len(mNetSegments) : getUuid(mNetSegments[i]) = getUuid(item)
     IN (secondDevice \/ secondNetSegment) =>
          /\ op'.result = "RuntimeError"
          /\ log' = <<>>
          /\ UNCHANGED <<collections, addedToBoard, mIsAddedToProject>>
          /\ secondDevice =>
               mDeviceInstances'[getComponentInstanceUuid(item)] \notin {NoItem, item}
          /\ secondNetSegment =>
               Cardinality({i \in 1..Len(mNetSegments') :
                              getUuid(mNetSegments'[i]) = getUuid(item)}) = 1
    ]_vars

\* C3 happens: a second device was refused while the board is added to the
\* project
C3_Witness ==
  /\ op.name = "addDeviceInstance"
  /\ op.result = "RuntimeError"
  /\ mDeviceInstances[getComponentInstanceUuid(op.arg)] \notin {NoItem, op.arg}
  /\ mIsAddedToProject

\* the methods that remove an item, and the collection each removes from
RemoveMethods == {"removeDeviceInstance", "removeNetSegment", "removePlane",
                  "removePolygon", "removeStrokeText", "removeHole"}

\* the methods that add an item
AddMethods == {"addDeviceInstance", "addNetSegment", "addPlane", "addPolygon",
               "addStrokeText", "addHole"}

\* the methods of the command
CommandMethods == {"performExecute", "performUndo", "performRedo"}

\* C4: a successful performExecute or performRedo of the command on polygon E
\* takes E, and nothing else, out of mPolygons (one member less, isEmpty() if
\* E was the only item); a successful performUndo puts the instance E back
\* (one member more, isEmpty() false) so that removing E again gives the
\* list undo started from: redo leaves the state execute left.
C4_UndoRedoRoundTrip ==
  [][(op'.name \in CommandMethods /\ op'.result = "ok") =>
       LET E == op'.arg
       IN /\ UNCHANGED <<mDeviceInstances, mNetSegments, mPlanes, mStrokeTexts,
                         mHoles, mIsAddedToProject>>
          /\ op'.name \in {"performExecute", "performRedo"} =>
               /\ contains(mPolygons, E)
               /\ Len(mPolygons') = Len(mPolygons) - 1
               /\ ~contains(mPolygons', E)
               /\ mPolygons' = removeOne(mPolygons, E)
               /\ NumItems = 1 => isEmpty'
          /\ op'.name = "performUndo" =>
               /\ Len(mPolygons') = Len(mPolygons) + 1
               /\ contains(mPolygons', E)
               /\ ~isEmpty'
               /\ removeOne(mPolygons', E) = mPolygons
    ]_vars

\* C4 happens: undo put a polygon back next to another one, on a board that
\* is added to the project
C4_Witness ==
  /\ op.name = "performUndo"
  /\ op.result = "ok"
  /\ Len(mPolygons) = 2
  /\ mIsAddedToProject

\* C4 happens also for the only item of the board
C4_WitnessEmpty ==
  /\ op.name = "performRedo"
  /\ op.result = "ok"
  /\ isEmpty

\* the collection a method adds to or removes from, out of the six given
Collection(name, devices, segments, planes, polygons, texts, holes) ==
  CASE name \in {"addDeviceInstance", "removeDeviceInstance"} -> DeviceList(devices)
    [] name \in {"addNetSegment", "removeNetSegment"} -> segments
    [] name \in {"addPlane", "removePlane"} -> planes
    [] name \in {"addPolygon", "removePolygon"} \cup CommandMethods -> polygons
    [] name \in {"addStrokeText", "removeStrokeText"} -> texts
    [] name \in {"addHole", "removeHole"} -> holes

\* that collection before the call
CollectionOf(name) ==
  Collection(name, mDeviceInstances, mNetSegments, mPlanes, mPolygons,
             mStrokeTexts, mHoles)

\* that collection after the call
CollectionAfter(name) ==
  Collection(name, mDeviceInstances', mNetSegments', mPlanes', mPolygons',
             mStrokeTexts', mHoles')

\* C5 as claimed: a remove method called with an instance that is not in its
\* collection throws LogicError, calls no removeFromBoard() and changes no
\* collection
C5_RemoveNonMember ==
  [][(op'.name \in RemoveMethods /\ ~contains(CollectionOf(op'.name), op'.arg)) =>
       /\ op'.result = "LogicError"
       /\ log' = <<>>
       /\ UNCHANGED collections
    ]_vars

\* C6 as claimed: an add method called with an instance that is in its
\* collection already, or that belongs to another board, throws LogicError,
\* calls no addToBoard() and changes nothing
C6_AddMemberOrForeign ==
  [][(/\ op'.name \in AddMethods
      /\ \/ contains(CollectionOf(op'.name), op'.arg)
         \/ getBoard(op'.arg) # "this") =>
       /\ op'.result = "LogicError"
       /\ log' = <<>>
       /\ UNCHANGED <<collections, besidesItems, addedToBoard,
                      mErcMsgListUnplacedComponentInstances>>
    ]_vars

\* C7: on a board that is added to the project, an add, remove or command
\* method that returns with the exception of the item's addToBoard() or
\* removeFromBoard() made that one call and changed no collection: the item
\* it was to add is not a member, the item it was to remove still is.
C7_SideEffectFailure ==
  [][(/\ mIsAddedToProject
      /\ op'.name \in AddMethods \cup RemoveMethods \cup CommandMethods
      /\ op'.result = "Exception") =>
       LET adds == op'.name \in AddMethods \cup {"performUndo"}
       IN /\ UNCHANGED <<collections, addedToBoard, mIsAddedToProject>>
          /\ log' = <<Ev(IF adds THEN "addToBoard" ELSE "removeFromBoard", op'.arg)>>
          /\ adds => ~contains(CollectionAfter(op'.name), op'.arg)
          /\ (~adds /\ op'.arg \in addedToBoard) =>
               contains(CollectionAfter(op'.name), op'.arg)
    ]_vars

\* C7 happens: the execute of the command failed and the polygon stayed
C7_Witness ==
  /\ op.name = "performExecute"
  /\ op.result = "Exception"
  /\ contains(mPolygons, op.arg)
  /\ mIsAddedToProject

\* C7 happens also for an add
C7_WitnessAdd ==
  /\ op.name = "addDeviceInstance"
  /\ op.result = "Exception"
  /\ mDeviceInstances[getComponentInstanceUuid(op.arg)] = NoItem

\* C8: addToProject on a board that is added to the project, and
\* removeFromProject on one that is not, throw LogicError, call nothing and
\* change neither the flag, the collections, the air wires and their schedule,
\* the items added to the board, nor the ERC messages.
C8_WrongStateRejected ==
  [][(\/ op'.name = "addToProject" /\ mIsAddedToProject
      \/ op'.name = "removeFromProject" /\ ~mIsAddedToProject) =>
       /\ op'.result = "LogicError"
       /\ log' = <<>>
       /\ UNCHANGED <<mIsAddedToProject, dirInProject, collections, airwires,
                      addedToBoard, mErcMsgListUnplacedComponentInstances>>
    ]_vars

\* C8 happens: addToProject was refused on a board that holds items
C8_Witness ==
  /\ op.name = "addToProject"
  /\ op.result = "LogicError"
  /\ mIsAddedToProject
  /\ Len(getAllItems) = 2

\* C8 happens also for removeFromProject
C8_WitnessRemove ==
  /\ op.name = "removeFromProject"
  /\ op.result = "LogicError"
  /\ ~mIsAddedToProject
  /\ Len(getAllItems) = 2

\* C9: removeFromProject calls removeFromBoard() on the items of getAllItems()
\* last first.  When the k-th of these calls throws, or moveTo() after all of
\* them, it returns with the exception after one addToBoard() on each item
\* detached before, the last detached first; the board is still added to the
\* project and so is every item.  When nothing throws the moveTo() follows
\* the calls and only then the flag is cleared.
C9_TransactionalDetach ==
  (op.name = "removeFromProject" /\ op.result # "LogicError") =>
    LET items == getAllItems
        n == Len(items)
        detached(j) == Ev("removeFromBoard", items[n + 1 - j])
    IN IF op.result = "ok"
       THEN /\ ~mIsAddedToProject
            /\ Len(log) = n + 3
            /\ \A j \in 1..n : log[j] = detached(j)
            /\ log[n + 1] = Ev("moveTo", NoItem)
            /\ log[n + 2] = Ev("mIsAddedToProject", NoItem)
            /\ addedToBoard \cap Range(items) = {}
       ELSE /\ mIsAddedToProject
            /\ Named(log, "mIsAddedToProject") = {}
            /\ Range(items) \subseteq addedToBoard
            /\ \E k \in 1..(n + 1) :
                 LET done == IF k = n + 1 THEN n ELSE k - 1
                     calls == IF k = n + 1 THEN n + 1 ELSE k
                 IN /\ Len(log) = calls + done
                    /\ \A j \in 1..(calls) :
                         log[j] = IF j = n + 1 THEN Ev("moveTo", NoItem)
                                  ELSE detached(j)
                    /\ \A j \in 1..done :
                         /\ log[calls + j] = Ev("addToBoard", items[n - done + j])
                         /\ Count(log, Ev("addToBoard", items[n - done + j])) = 1

\* C9 happens: the second removeFromBoard() threw and the item detached first
\* was added again
C9_Witness ==
  /\ op.name = "removeFromProject"
  /\ op.result = "Exception"
  /\ Len(log) = 3
  /\ log[1][1] = "removeFromBoard"
  /\ log[2][1] = "removeFromBoard"
  /\ log[3] = Ev("addToBoard", log[1][2])
  /\ log[1][2] # log[2][2]

\* C9 happens also for moveTo() and for the call that succeeds
C9_WitnessMove ==
  /\ op.name = "removeFromProject"
  /\ op.result = "Exception"
  /\ Len(log) = 5
  /\ log[3] = Ev("moveTo", NoItem)

C9_WitnessOk ==
  /\ op.name = "removeFromProject"
  /\ op.result = "ok"
  /\ Len(getAllItems) = 2

\* C10: an addToProject that returns normally has called addToBoard() on
\* every item of the snapshot in order, then moveTo() if the directory was
\* not in the project, then set the flag, then forceAirWiresRebuild(), whose
\* triggerAirWiresRebuild() found the flag set and asked for the air wires of
\* every net signal of the circuit unless a call of the rebuild threw, and
\* last updateErcMessages().  When moveTo() throws, which is after all the
\* addToBoard() calls, removeFromBoard() is called on every item, last added
\* first, and the board is not added to the project.
C10_AddToProjectOrder ==
  [][(op'.name = "addToProject" /\ ~mIsAddedToProject) =>
       LET items == getAllItems
           n == Len(items)
           m == IF dirInProject THEN n ELSE n + 1
           calls == log'
       IN /\ op'.result = "ok" =>
               /\ mIsAddedToProject'
               /\ Len(calls) >= m + 4
               /\ \A j \in 1..n : calls[j] = Ev("addToBoard", items[j])
               /\ m > n => calls[m] = Ev("moveTo", NoItem)
               /\ calls[m + 1] = Ev("mIsAddedToProject", NoItem)
               /\ calls[m + 2] = Ev("forceAirWiresRebuild", NoItem)
               /\ calls[m + 3] = Ev("triggerAirWiresRebuild", NoItem)
               /\ Named(calls, "updateErcMessages") = {Len(calls)}
               /\ Named(calls, "mIsAddedToProject") = {m + 1}
               /\ Named(calls, "qCritical") = {} =>
                    /\ mScheduledNetSignalsForAirWireRebuild' = {}
                    /\ \A sig \in netSignals :
                         \E j \in (m + 4)..(Len(calls) - 1) :
                           calls[j] = Ev("buildAirWires", SigRef(sig))
               /\ Members \subseteq addedToBoard'
               /\ UNCHANGED collections
          /\ (op'.result = "Exception" /\ Named(calls, "moveTo") # {}) =>
               /\ ~mIsAddedToProject'
               /\ Len(calls) = 2 * n + 1
               /\ \A j \in 1..n : calls[j] = Ev("addToBoard", items[j])
               /\ calls[n + 1] = Ev("moveTo", NoItem)
               /\ \A j \in 1..n : calls[n + 1 + j] = Ev("removeFromBoard", items[n + 1 - j])
               /\ addedToBoard' \cap Range(items) = {}
               /\ UNCHANGED <<collections, airwires>>
    ]_vars

\* C10 happens: two items were added to the board, the directory was moved,
\* and the rebuild asked for the air wires of a signal and added one
C10_Witness ==
  /\ op.name = "addToProject"
  /\ op.result = "ok"
  /\ Len(log) >= 8
  /\ log[2][1] = "addToBoard"
  /\ log[3] = Ev("moveTo", NoItem)
  /\ \E j \in 7..Len(log) : log[j][1] = "buildAirWires"
  /\ \E j \in 8..Len(log) : log[j][1] = "addToBoard"

\* C10 happens also for a moveTo() that throws after two items
C10_WitnessMove ==
  /\ op.name = "addToProject"
  /\ op.result = "Exception"
  /\ Len(log) = 5
  /\ log[3] = Ev("moveTo", NoItem)

\* the indices of the buildFragments() calls of calls
Builds(calls) == {i \in 1..Len(calls) : calls[i][1] = "buildFragments"}

\* C11: rebuildAllPlanes calls buildFragments() once for every plane of
\* mPlanes and for no other, an earlier call never for a plane of lower
\* priority than a later one, whatever the order of mPlanes; each call is
\* followed by setCalculatedFragments() on the same plane, every member holds
\* built fragments afterwards, no other plane's fragments change, and mPlanes
\* is what it was.
C11_FillOrdering ==
  [][op'.name = "rebuildAllPlanes" =>
       LET calls == log'
       IN /\ \A plane \in AllPlanes :
               Count(calls, Ev("buildFragments", plane))
                 = (IF contains(mPlanes, plane) THEN 1 ELSE 0)
          /\ \A i, j \in Builds(calls) :
               i < j => getPriority(calls[i][2]) >= getPriority(calls[j][2])
          /\ \A i \in Builds(calls) :
               calls[i + 1] = Ev("setCalculatedFragments", calls[i][2])
          /\ Len(calls) = 2 * Len(mPlanes)
          /\ \A plane \in AllPlanes :
               calculatedFragments'[plane] =
                 IF contains(mPlanes, plane) THEN "built"
                 ELSE calculatedFragments[plane]
          /\ mPlanes' = mPlanes
    ]_vars

\* C11 happens: planes inserted with the priorities 5, 1, 3 were built in the
\* order 5, 3, 1
C11_Witness ==
  /\ op.name = "rebuildAllPlanes"
  /\ mPlanes = <<<<"plane", 1>>, <<"plane", 2>>, <<"plane", 3>>>>
  /\ <<getPriority(mPlanes[1]), getPriority(mPlanes[2]), getPriority(mPlanes[3])>>
       = <<5, 1, 3>>
  /\ <<log[1], log[3], log[5]>> = <<Ev("buildFragments", <<"plane", 1>>),
                                    Ev("buildFragments", <<"plane", 3>>),
                                    Ev("buildFragments", <<"plane", 2>>)>>

\* the air wire objects of a signal
AirWiresOf(airWires, sig) == {airWires[sig][j].item : j \in 1..Len(airWires[sig])}

\* C12: a call of triggerAirWiresRebuild leaves every signal that is not in
\* mScheduledNetSignalsForAirWireRebuild alone: its air wires are the same
\* objects afterwards, removeFromBoard() is called on none of them and
\* buildAirWires() is not called for it.
C12_RebuildScope ==
  [][op'.name = "triggerAirWiresRebuild" =>
       \A T \in NetSignalSet \ mScheduledNetSignalsForAirWireRebuild :
         /\ mAirWires'[T] = mAirWires[T]
         /\ \A airWire \in AirWiresOf(mAirWires, T) :
              Ev("removeFromBoard", airWire) \notin Range(log')
         /\ Ev("buildAirWires", SigRef(T)) \notin Range(log')
    ]_vars

\* C12 happens: s1 was rebuilt while s2, which was not scheduled, kept its
\* air wire
C12_Witness ==
  /\ op.name = "triggerAirWiresRebuild"
  /\ mIsAddedToProject
  /\ Ev("buildAirWires", SigRef("s1")) \in Range(log)
  /\ Ev("buildAirWires", SigRef("s2")) \notin Range(log)
  /\ mAirWires["s2"] # <<>>

\* C13 as claimed: after a call of triggerAirWiresRebuild on a board that is
\* added to the project mScheduledNetSignalsForAirWireRebuild is empty,
\* whether a call of the rebuild threw or not
C13_PendingCleared ==
  [][(op'.name = "triggerAirWiresRebuild" /\ mIsAddedToProject) =>
       mScheduledNetSignalsForAirWireRebuild' = {}
    ]_vars

\* the signal whose buildAirWires() or whose new air wire's addToBoard()
\* threw in the rebuild that made calls, none if neither did
FailedSignals(calls) ==
  IF /\ Len(calls) >= 2
     /\ calls[Len(calls)] = Ev("qCritical", NoItem)
     /\ calls[Len(calls) - 1][1] \in {"buildAirWires", "addToBoard"}
  THEN LET last == CHOOSE i \in Named(calls, "buildAirWires") :
                     \A j \in Named(calls, "buildAirWires") : j <= i
       IN {calls[last][2][1]}
  ELSE {}

\* C14 as claimed: after a call of triggerAirWiresRebuild in which
\* buildAirWires() for a signal, or addToBoard() of one of its new air wires,
\* threw, the signal has the air wires it had before the call
C14_LastKnownState ==
  [][op'.name = "triggerAirWiresRebuild" =>
       \A S \in FailedSignals(log') : mAirWires'[S] = mAirWires[S]
    ]_vars

\* C15: a call of triggerAirWiresRebuild on a board that is not added to the
\* project makes no call and changes neither the air wires nor the scheduled
\* signals, which stay scheduled.
C15_TriggerDetachedNoOp ==
  [][(op'.name = "triggerAirWiresRebuild" /\ ~mIsAddedToProject) =>
       /\ log' = <<>>
       /\ UNCHANGED <<mAirWires, mScheduledNetSignalsForAirWireRebuild,
                      addedToBoard, collections, mIsAddedToProject>>
    ]_vars

\* C15 happens: the call returned with a signal still scheduled on a board
\* that is not added to the project
C15_Witness ==
  /\ op.name = "triggerAirWiresRebuild"
  /\ ~mIsAddedToProject
  /\ "s1" \in mScheduledNetSignalsForAirWireRebuild

\* C16 as claimed: a call of forceAirWiresRebuild on a board that is not
\* added to the project changes neither the air wires nor the scheduled
\* signals
C16_ForceDetachedNoOp ==
  [][(op'.name = "forceAirWiresRebuild" /\ ~mIsAddedToProject) =>
       UNCHANGED <<mAirWires, mScheduledNetSignalsForAirWireRebuild>>
    ]_vars

\* the component instances of the circuit that are to be placed and have
\* no device on the board
Unplaced == {c \in componentInstances :
               ~isSchematicOnly(c) /\ mDeviceInstances[c] = NoItem}

\* C17: while the board is added to the project, after every method and
\* every signal of the circuit, the messages registered in
\* mErcMsgListUnplacedComponentInstances are those of the component instances
\* of the circuit that are not schematic-only and have no device: one for
\* each of them, none for an instance with a device, none for an instance
\* that left the circuit.
C17_ErcComplete ==
  mIsAddedToProject => mErcMsgListUnplacedComponentInstances = Unplaced

\* C17 happens: a device was added for c1, whose message went, while c2 is
\* still unplaced and another instance has left the circuit
C17_Witness ==
  /\ mIsAddedToProject
  /\ op.name = "addDeviceInstance"
  /\ op.result = "ok"
  /\ getComponentInstanceUuid(op.arg) = "c1"
  /\ mErcMsgListUnplacedComponentInstances = {"c2"}
  /\ componentInstances = {"c1", "c2"}

\* C17 happens also for a component instance that left the circuit while it
\* had a message
C17_WitnessRemoved ==
  /\ mIsAddedToProject
  /\ op.name = "componentRemoved"
  /\ op.arg = <<"c2", 0>>
  /\ mDeviceInstances["c2"] = NoItem

\* C18: in every state in which the board is not added to the project no
\* message is registered; so a removeFromProject that returns normally
\* leaves none, whatever was registered before.
C18_NoErcWhenDetached ==
  ~mIsAddedToProject => mErcMsgListUnplacedComponentInstances = {}

\* C18 happens: removeFromProject returned normally on a board with an
\* unplaced component instance
C18_Witness ==
  /\ op.name = "removeFromProject"
  /\ op.result = "ok"
  /\ Unplaced # {}
  /\ ~mIsAddedToProject

\* C19 as claimed: isEmpty() is true exactly when the board holds no
\* device, net segment, plane, polygon, stroke text, hole and air wire
C19_IsEmptyIffNoItems ==
  isEmpty <=> (/\ Members = {}
               /\ \A sig \in NetSignalSet : mAirWires[sig] = <<>>)

\* the air wire objects of the board
AllAirWires(airWires) == UNION {AirWiresOf(airWires, sig) : sig \in NetSignalSet}

\* C20 as claimed: no add or remove method, no method of the command, no
\* copyFrom and no removeFromProject changes which air wires the board has or
\* writes the fragments of a plane; addToProject writes no fragments either,
\* and changes no air wire when it returns with an exception
C20_DerivedDataFrame ==
  [][(op'.name \in AddMethods \cup RemoveMethods \cup CommandMethods
                   \cup {"copyFrom", "addToProject", "removeFromProject"}) =>
       /\ calculatedFragments' = calculatedFragments
       /\ Named(log', "setCalculatedFragments") = {}
       /\ (op'.name # "addToProject" \/ op'.result # "ok") =>
            AllAirWires(mAirWires') = AllAirWires(mAirWires)
    ]_vars

\* the value of mIsAddedToProject when the i-th call of the method that made
\* calls was made: the value the method found, or the one it left if it had
\* assigned the flag by then
FlagAt(calls, i, found, left) ==
  IF \E j \in 1..(i - 1) : calls[j] = Ev("mIsAddedToProject", NoItem)
  THEN left ELSE found

\* the calls of addToBoard() and removeFromBoard() in calls
SideEffects(calls) == Named(calls, "addToBoard") \cup Named(calls, "removeFromBoard")

\* C21 as claimed: whenever an add or remove method, addToProject,
\* removeFromProject or triggerAirWiresRebuild calls addToBoard() or
\* removeFromBoard() on an item, mIsAddedToProject is true at that moment
C21_SideEffectsWhileAdded ==
  [][(op'.name \in AddMethods \cup RemoveMethods
                   \cup {"addToProject", "removeFromProject",
                         "triggerAirWiresRebuild"}) =>
       \A i \in SideEffects(log') :
         FlagAt(log', i, mIsAddedToProject, mIsAddedToProject')
    ]_vars

\* the kinds of items in the order of the loops of getAllItems
KindOrder == <<"device", "netsegment", "plane", "polygon", "stroketext", "hole",
               "airwire">>

KindRank(item) == CHOOSE k \in 1..Len(KindOrder) : KindOrder[k] = item[1]

\* the items of a kind in items, in their order
OfKind(items, kind) == SelectSeq(items, LAMBDA item : item[1] = kind)

\* C22: getAllItems() holds every device, net segment, plane, polygon, stroke
\* text, hole and air wire of the board once and nothing else; the kinds
\* follow each other in this order, and the net segments, planes, polygons,
\* stroke texts and holes stand in the order of their lists.
C22_GetAllItems ==
  LET items == getAllItems
  IN /\ Range(items) = Members \cup AllAirWires(mAirWires)
     /\ \A item \in Range(items) : Count(items, item) = 1
     /\ \A i, j \in 1..Len(items) : i < j => KindRank(items[i]) <= KindRank(items[j])
     /\ Range(OfKind(items, "device")) =
          {mDeviceInstances[c] : c \in ComponentUuids} \ {NoItem}
     /\ OfKind(items, "netsegment") = mNetSegments
     /\ OfKind(items, "plane") = mPlanes
     /\ OfKind(items, "polygon") = mPolygons
     /\ OfKind(items, "stroketext") = mStrokeTexts
     /\ OfKind(items, "hole") = mHoles
     /\ Range(OfKind(items, "airwire")) = AllAirWires(mAirWires)

\* C22 happens: a board with a plane, a polygon and an air wire
C22_Witness ==
  /\ mPlanes # <<>>
  /\ mPolygons # <<>>
  /\ Len(getAllItems) = 3
  /\ getAllItems[3][1] = "airwire"

\* C22 happens also for two polygons that are not in the order of their
\* numbers
C22_WitnessOrder ==
  /\ mPolygons = <<<<"polygon", 2>>, <<"polygon", 1>>>>
  /\ mIsAddedToProject

\* list holds no instance twice
NoInstanceTwice(list) == \A i, j \in 1..Len(list) : i # j => list[i] # list[j]

\* C23: in every reachable state no instance stands twice in its list or
\* under two keys of the device map, and every member of the six collections
\* was constructed against this board, so none is an item of another board.
C23_SingleOwner ==
  /\ \A list \in {mNetSegments, mPlanes, mPolygons, mStrokeTexts, mHoles} :
       NoInstanceTwice(list)
  /\ \A c, d \in ComponentUuids :
       (c # d /\ mDeviceInstances[c] # NoItem) => mDeviceInstances[c] # mDeviceInstances[d]
  /\ \A item \in Members : getBoard(item) = "this"

\* C23 happens: addHole was refused for a hole that is a member already
C23_Witness ==
  /\ op.name = "addHole"
  /\ op.result = "LogicError"
  /\ contains(mHoles, op.arg)

\* C23 happens also for a net segment of another board
C23_WitnessForeign ==
  /\ op.name = "addNetSegment"
  /\ op.result = "LogicError"
  /\ getBoard(op.arg) = "other"
  /\ mNetSegments = <<>>

\* C24: performUndo of the command while its polygon is a member of mPolygons
\* (the command was never executed, or was undone), and performExecute or
\* performRedo while it is not (the command was executed), throw LogicError,
\* call neither addToBoard() nor removeFromBoard() and leave mPolygons and
\* everything else as it was.
C24_UndoRedoPrecondition ==
  [][(\/ op'.name = "performUndo" /\ contains(mPolygons, op'.arg)
      \/ op'.name \in {"performExecute", "performRedo"}
           /\ ~contains(mPolygons, op'.arg)) =>
       /\ op'.result = "LogicError"
       /\ log' = <<>>
       /\ UNCHANGED <<collections, besidesItems, addedToBoard,
                      mErcMsgListUnplacedComponentInstances>>
    ]_vars

\* C24 happens: the undo of a command that was not executed was refused on a
\* board that is added to the project
C24_Witness ==
  /\ op.name = "performUndo"
  /\ op.result = "LogicError"
  /\ contains(mPolygons, op.arg)
  /\ mIsAddedToProject

\* C24 happens also for the redo of a command that was executed
C24_WitnessRedo ==
  /\ op.name = "performRedo"
  /\ op.result = "LogicError"
  /\ ~contains(mPolygons, op.arg)
  /\ mPolygons # <<>>

\* the place of the one buildAirWires() call for sig in calls, 0 if there is
\* none or more than one
BuildAt(calls, sig) ==
  LET at == {i \in 1..Len(calls) : calls[i] = Ev("buildAirWires", SigRef(sig))}
  IN IF Cardinality(at) = 1 THEN CHOOSE i \in at : TRUE ELSE 0

\* C25: after a triggerAirWiresRebuild on a board that is added to the
\* project in which nothing threw, for every signal S that was scheduled:
\* removeFromBoard() was called once on each air wire S had, and S holds none
\* of them as it was; if S is added to the circuit the builder was asked once
\* for S, after those calls, and S now has one air wire per point pair the
\* builder returned, each for its own pair, each added to the board by an
\* addToBoard() call that follows the builder's; if S is not added to the
\* circuit it has no air wire and the builder was not asked for it (the
\* address of a deleted air wire may be that of a new one of another signal).
\* No signal is scheduled any more.
C25_RebuildResult ==
  [][(/\ op'.name = "triggerAirWiresRebuild"
      /\ mIsAddedToProject
      /\ Named(log', "qCritical") = {}) =>
       /\ mScheduledNetSignalsForAirWireRebuild' = {}
       /\ \A S \in mScheduledNetSignalsForAirWireRebuild :
            LET old == mAirWires[S]
                new == mAirWires'[S]
                b == BuildAt(log', S)
            IN /\ \A j \in 1..Len(old) :
                    Count(log', Ev("removeFromBoard", old[j].item)) = 1
               /\ IF S \in netSignals
                  THEN /\ b > Len(old)
                       /\ \A j \in 1..Len(old) :
                            log'[b - Len(old) + j - 1] = Ev("removeFromBoard", old[j].item)
                       /\ log'[b + 1] = Ev("pointPairs", <<S, Len(new)>>)
                       /\ Len(log') >= b + 1 + Len(new)
                       /\ \A k \in 1..Len(new) :
                            /\ log'[b + 1 + k][1] = "addToBoard"
                            /\ \E j \in 1..Len(new) :
                                 /\ new[j].item = log'[b + 1 + k][2]
                                 /\ new[j].points = k
                       /\ \A i, j \in 1..Len(new) : i # j => new[i].item # new[j].item
                       /\ AirWiresOf(mAirWires', S) \subseteq addedToBoard'
                  ELSE /\ new = <<>>
                       /\ Ev("buildAirWires", SigRef(S)) \notin Range(log')
                       /\ (AirWiresOf(mAirWires, S) \cap addedToBoard')
                            \subseteq AllAirWires(mAirWires')
    ]_vars

\* C25 happens: s2, which left the circuit, lost its air wire, and s1 got a
\* new air wire in place of the one it had
C25_Witness ==
  /\ op.name = "triggerAirWiresRebuild"
  /\ mIsAddedToProject
  /\ netSignals = {"s1"}
  /\ Named(log, "qCritical") = {}
  /\ Cardinality(Named(log, "removeFromBoard")) = 2
  /\ Ev("pointPairs", <<"s1", 1>>) \in Range(log)
  /\ mAirWires["s2"] = <<>>

\* C26: forceAirWiresRebuild schedules, besides the signals that are
\* scheduled already, every net signal of the circuit and every signal that
\* has an air wire, and then calls triggerAirWiresRebuild: on a board that is
\* not added to the project, or when a call of the rebuild throws, exactly
\* these signals are scheduled afterwards; on a board that is added to the
\* project and with nothing thrown, the builder was asked for every net signal
\* of the circuit, no signal outside the circuit has an air wire left, and no
\* signal is scheduled.
C26_ForceRebuildsAll ==
  [][op'.name = "forceAirWiresRebuild" =>
       LET seeded == mScheduledNetSignalsForAirWireRebuild \cup netSignals
                     \cup {S \in NetSignalSet : mAirWires[S] # <<>>}
       IN /\ log'[1] = Ev("triggerAirWiresRebuild", NoItem)
          /\ IF mIsAddedToProject /\ Named(log', "qCritical") = {}
             THEN /\ mScheduledNetSignalsForAirWireRebuild' = {}
                  /\ \A S \in NetSignalSet \ netSignals : mAirWires'[S] = <<>>
                  /\ \A S \in netSignals : BuildAt(log', S) # 0
                  /\ AllAirWires(mAirWires') \subseteq addedToBoard'
             ELSE mScheduledNetSignalsForAirWireRebuild' = seeded
    ]_vars

\* C26 happens: s2 left the circuit with an air wire, and the forced rebuild
\* took it away while it built the air wire of s1 anew
C26_Witness ==
  /\ op.name = "forceAirWiresRebuild"
  /\ mIsAddedToProject
  /\ netSignals = {"s1"}
  /\ Named(log, "qCritical") = {}
  /\ Cardinality(Named(log, "removeFromBoard")) = 2
  /\ mAirWires["s1"] # <<>>
  /\ mAirWires["s2"] = <<>>
  /\ mScheduledNetSignalsForAirWireRebuild = {}

\* C26 happens also on a board that is not added to the project, where the
\* signals stay scheduled
C26_WitnessDetached ==
  /\ op.name = "forceAirWiresRebuild"
  /\ ~mIsAddedToProject
  /\ netSignals = {"s1"}
  /\ mScheduledNetSignalsForAirWireRebuild = {"s1", "s2"}

\* new is the copy, made for this board, of the anchor old of the other
\* board: the pad of the device that is now a member, or a via or net point
\* that was created for the net segment that is now a member
CopiedAnchor(old, new, devices, segments) ==
  /\ new[1] = old[1]
  /\ getBoard(new) = "this"
  /\ IF old[1] = "pad"
     THEN \E c \in ComponentUuids : devices[c] # NoItem /\ devices[c][2] = new[2]
     ELSE \E i \in 1..Len(segments) : segments[i][2] = new[2]

\* the places of the new BI_NetLine(...) calls in calls, first to last
NetLinesAt(calls) ==
  LET at == Named(calls, "BI_NetLine")
  IN [j \in 1..Cardinality(at) |->
        CHOOSE i \in at : Cardinality({k \in at : k <= i}) = j]

\* C27: a copyFrom(other) into an empty board that returns normally leaves in
\* every collection as many items as the other board's collection has, none
\* of them an item of the other board; and it creates one net line per net
\* line of the other board's net segment, in order, whose start and end are
\* the anchors of this board that were made for the line's start and end: the
\* pad of the copied device, the via or the net point created before for the
\* copy of the segment.
C27_CopyFromResult ==
  [][(op'.name = "copyFrom" /\ op'.result = "ok" /\ isEmpty) =>
       LET other == op'.arg
           calls == log'
           at == NetLinesAt(calls)
       IN /\ Len(DeviceList(mDeviceInstances')) = Len(other.devices)
          /\ Len(mNetSegments') = Len(other.netSegments)
          /\ Len(mPlanes') = Len(other.planes)
          /\ Len(mPolygons') = Len(other.polygons)
          /\ Len(mStrokeTexts') = Len(other.strokeTexts)
          /\ Len(mHoles') = Len(other.holes)
          /\ \A item \in Range(getAllItems') :
               getBoard(item) = "this" /\ item \notin Range(sourceItems(other))
          /\ Len(at) = Len(other.netLines)
          /\ \A j \in 1..Len(at) :
               LET i == at[j]
                   line == calls[i][2]
               IN /\ i > 2
                  /\ calls[i - 2] = Ev("getStartPoint", other.netLines[j][1])
                  /\ calls[i - 1] = Ev("getEndPoint", other.netLines[j][2])
                  /\ CopiedAnchor(other.netLines[j][1], line[1],
                                  mDeviceInstances', mNetSegments')
                  /\ CopiedAnchor(other.netLines[j][2], line[2],
                                  mDeviceInstances', mNetSegments')
                  /\ \A k \in 1..2 :
                       line[k][1] = "via" =>
                         \E h \in 1..(i - 1) : calls[h] = Ev("BI_Via", line[k])
                  /\ \A k \in 1..2 :
                       line[k][1] = "netpoint" =>
                         \E h \in 1..(i - 1) : calls[h] = Ev("BI_NetPoint", line[k])
    ]_vars

\* C27 happens: a board with a device and a net segment whose net line runs
\* from the pad of the device to a via was copied to an empty board that is
\* added to the project
C27_Witness ==
  /\ op.name = "copyFrom"
  /\ op.result = "ok"
  /\ mIsAddedToProject
  /\ Len(getAllItems) = 2
  /\ op.arg.netLines = <<<<<<"pad", 0>>, <<"via", 0>>>>>>
  /\ Ev("BI_NetLine", <<<<"pad", 1>>, <<"via", 1>>>>) \in Range(log)

\* C27 happens also for a board with a plane and a hole
C27_WitnessOther ==
  /\ op.name = "copyFrom"
  /\ op.result = "ok"
  /\ Len(mPlanes) = 1
  /\ Len(mHoles) = 1
  /\ Len(op.arg.planes) = 1
  /\ Len(op.arg.holes) = 1

\* the items the methods of the board and of the command are called with
AllItems == Devices \cup NetSegments \cup Planes \cup Polygons \cup StrokeTexts
            \cup Holes

C28_WitnessFailed ==
  /\ AttachFailed
  /\ Len(log) = 3
  /\ Cardinality(Members) = 2

\* the signal whose call threw in the rebuild that made calls: the one the
\* last call ahead of qCritical() was made for, "none" if it was made for no
\* signal
FailedAt(calls, before) ==
  LET last == Len(calls) - 1
      call == calls[last]
      builds == {i \in Named(calls, "buildAirWires") : i < last}
      owners == {S \in NetSignalSet : call[2] \in AirWiresOf(before, S)}
  IN CASE call[1] = "buildAirWires" -> call[2][1]
       [] call[1] = "removeFromBoard" /\ owners # {} -> CHOOSE S \in owners : TRUE
       [] call[1] = "addToBoard" /\ builds # {} ->
            calls[CHOOSE i \in builds : \A j \in builds : j <= i][2][1]
       [] OTHER -> "none"

\* the rebuild that made calls did not touch the signal T
Untouched(T, calls, before, after) ==
  /\ after[T] = before[T]
  /\ Ev("buildAirWires", SigRef(T)) \notin Range(calls)
  /\ \A airWire \in AirWiresOf(before, T) :
       Ev("removeFromBoard", airWire) \notin Range(calls)

\* the rebuild that made calls went through the whole loop body for T
Completed(T, calls, before, after) ==
  /\ \A airWire \in AirWiresOf(before, T) :
       Ev("removeFromBoard", airWire) \in Range(calls)
  /\ IF T \in netSignals
     THEN LET b == BuildAt(calls, T)
          IN /\ b # 0
             /\ calls[b + 1] = Ev("pointPairs", <<T, Len(after[T])>>)
             /\ \A k \in 1..Len(after[T]) : calls[b + 1 + k][1] = "addToBoard"
     ELSE after[T] = <<>>

\* C29: when a call made for a signal throws in triggerAirWiresRebuild, the
\* method returns normally after one qCritical(), which is the last thing it
\* does, and the call that threw is the last it made for any signal: every
\* other signal was either rebuilt completely before, or is as it was, with
\* no removeFromBoard() on its air wires and no call of the builder for it;
\* a signal that was not scheduled is as it was.
C29_FailureStopsLoop ==
  [][(/\ op'.name = "triggerAirWiresRebuild"
      /\ Named(log', "qCritical") # {}) =>
       /\ op'.result = "ok"
       /\ Named(log', "qCritical") = {Len(log')}
       /\ Len(log') >= 2
       /\ LET F == FailedAt(log', mAirWires)
          IN /\ F \in mScheduledNetSignalsForAirWireRebuild
             /\ \A T \in NetSignalSet \ {F} :
                  /\ \/ Untouched(T, log', mAirWires, mAirWires')
                     \/ Completed(T, log', mAirWires, mAirWires')
                  /\ T \notin mScheduledNetSignalsForAirWireRebuild =>
                       Untouched(T, log', mAirWires, mAirWires')
    ]_vars

\* C29 happens: the builder threw for s1, and s2, which was scheduled as
\* well and has an air wire, was not rebuilt
C29_Witness ==
  /\ op.name = "triggerAirWiresRebuild"
  /\ op.result = "ok"
  /\ Len(log) >= 2
  /\ log[Len(log)] = Ev("qCritical", NoItem)
  /\ log[Len(log) - 1] = Ev("buildAirWires", SigRef("s1"))
  /\ "s2" \in mScheduledNetSignalsForAirWireRebuild
  /\ mAirWires["s2"] # <<>>
  /\ Named(log, "removeFromBoard") = {}

\* C30: a performUndo that returns normally appends its polygon E to
\* mPolygons, whatever place E had before performExecute took it out.  So for
\* every list L that performExecute can have started from (E a member, and
\* L without E the list undo found), the list after undo has the members of
\* L, and it is L itself exactly when E was the last member of L; the
\* polygons of getAllItems() stand in the new order.
C30_UndoAppends ==
  [][(op'.name = "performUndo" /\ op'.result = "ok") =>
       LET E == op'.arg
       IN /\ mPolygons' = Append(mPolygons, E)
          /\ OfKind(getAllItems', "polygon") = Append(mPolygons, E)
          /\ \A L \in ListsOf(Native(Polygons)) :
               (contains(L, E) /\ removeOne(L, E) = mPolygons) =>
                 /\ Range(mPolygons') = Range(L)
                 /\ Len(mPolygons') = Len(L)
                 /\ (mPolygons' = L) <=> (L[Len(L)] = E)
    ]_vars

\* C30 happens: the polygon 1, which the command took out, stands behind
\* the polygon 2 after the undo, on a board that is added to the project
C30_Witness ==
  /\ op.name = "performUndo"
  /\ op.result = "ok"
  /\ op.arg = <<"polygon", 1>>
  /\ mPolygons = <<<<"polygon", 2>>, <<"polygon", 1>>>>
  /\ mIsAddedToProject

=============================================================================
